---- MODULE Spec2Model ----
(***************************************************************************)
(* Webcam-OCR: the capture / request orchestration core of src/script.js.  *)
(*                                                                         *)
(*   CaptureController  (script.js 516-670)  scheduler: interval timer or  *)
(*                                           continuous ("async") loop     *)
(*   OCRService.request (script.js 442-512)  one recognition call with     *)
(*                                           bounded retry / backoff       *)
(*   App.bindEvents     (script.js 706-765)  the page's event handlers     *)
(*                                                                         *)
(* JavaScript runs one handler at a time, so an action of this model is    *)
(* the code that runs between two suspension points (await fetch, await    *)
(* U.sleep, a timer callback, a DOM event).  Times are in milliseconds.    *)
(* Texts (error messages) are sequences of one-character strings, so that  *)
(* String.prototype.includes is a real substring search.                   *)
(***************************************************************************)
EXTENDS Integers, Sequences, FiniteSets, TLC

(* ------------------------------ bounds -------------------------------- *)
\* the clock stops advancing at MaxTime
MaxTime ==
  10000
\* continuous-loop instances that may exist at the same time
MaxLoops ==
  1
\* interval-mode capture cycles that may be in flight at the same time
MaxInFlight ==
  1
\* largest retry ceiling tried by the request-level specification
MaxRetriesBound ==
  2
\* continuous-loop instances tried by the restart specification
RestartLoops ==
  2
\* timer-callback cycles that may be in flight in the overlap specification
MaxOverlap ==
  2
\* the clock stops here in the specification of the loop's delay
DelayHorizon ==
  20000
\* pieces a text given to cleanOcrResult is put together from
MaxTokens ==
  3
\* longest text given to confidenceHeuristic
MaxTextLen ==
  150
\* pieces a text given to parseTextValue is put together from
MaxJsonTokens ==
  3

(* ------------------------- program constants -------------------------- *)
\* setInterval(() => this.captureOnce(false), 1000)
IntervalPeriod ==
  1000
\* this.throttleUntil = U.now() + 5000
ThrottleCooldown ==
  5000
\* this.maxConsecutiveErrors = 3
MaxConsecutiveErrors ==
  3
\* await U.sleep(5000) in the error branch of runAsyncLoop
ErrorPause ==
  5000
\* while (this.el.results.children.length > 15)
MaxResults ==
  15
\* Math.max(1000, processingTime * 0.1)
MinDelay ==
  1000
\* CFG.rateLimit?.maxRetries ?? 1
DefaultMaxRetries ==
  1
\* CFG.rateLimit?.retryDelay ?? 5000
DefaultRetryDelay ==
  5000

(* ------------------------------- texts -------------------------------- *)
MsgNoApiKey ==
  << "G", "e", "m", "i", "n", "i", " ", "A", "P", "I", " ", "k", "e", "y", " ", "n", "o", "t", " ", "f", "o", "u", "n", "d", ".", " ", "P", "l", "e", "a", "s", "e", " ", "s", "e", "t", " ", "G", "E", "M", "I", "N", "I", "_", "A", "P", "I", "_", "K", "E", "Y", " ", "o", "r", " ", "e", "n", "t", "e", "r", " ", "w", "h", "e", "n", " ", "p", "r", "o", "m", "p", "t", "e", "d", "." >>
MsgNoModel ==
  << "N", "o", " ", "v", "a", "l", "i", "d", " ", "m", "o", "d", "e", "l", " ", "c", "o", "n", "f", "i", "g", "u", "r", "a", "t", "i", "o", "n", " ", "f", "o", "u", "n", "d", "." >>
PfxNetwork ==
  << "N", "e", "t", "w", "o", "r", "k", " ", "e", "r", "r", "o", "r", ":", " " >>
PfxApi ==
  << "A", "P", "I", " ", "e", "r", "r", "o", "r", ":", " " >>
PfxApiRetries ==
  << "A", "P", "I", " ", "e", "r", "r", "o", "r", " ", "a", "f", "t", "e", "r", " ", "r", "e", "t", "r", "i", "e", "s", ":", " " >>
StrUnknownError ==
  << "U", "n", "k", "n", "o", "w", "n", " ", "e", "r", "r", "o", "r" >>
StrApiKey ==
  << "A", "P", "I", " ", "k", "e", "y" >>
StrNetwork ==
  << "N", "e", "t", "w", "o", "r", "k" >>
Str429 ==
  << "4", "2", "9" >>
Str500 ==
  << "5", "0", "0" >>
\* inputs: the message of a rejected fetch, upstream error messages, status texts
MsgFailedToFetch ==
  << "F", "a", "i", "l", "e", "d", " ", "t", "o", " ", "f", "e", "t", "c", "h" >>
MsgQuota ==
  << "R", "e", "s", "o", "u", "r", "c", "e", " ", "e", "x", "h", "a", "u", "s", "t", "e", "d" >>
MsgCode429 ==
  << "E", "r", "r", "o", "r", " ", "4", "2", "9" >>
MsgBadKey ==
  << "A", "P", "I", " ", "k", "e", "y", " ", "n", "o", "t", " ", "v", "a", "l", "i", "d" >>
TxtTooMany ==
  << "T", "o", "o", " ", "M", "a", "n", "y", " ", "R", "e", "q", "u", "e", "s", "t", "s" >>
TxtInternal ==
  << "I", "n", "t", "e", "r", "n", "a", "l", " ", "S", "e", "r", "v", "e", "r", " ", "E", "r", "r", "o", "r" >>
TxtBadRequest ==
  << "B", "a", "d", " ", "R", "e", "q", "u", "e", "s", "t" >>

\* String.prototype.includes
Includes(s, sub) ==
  \E i \in 0..(Len(s) - Len(sub)) : SubSeq(s, i + 1, i + Len(sub)) = sub
\* String.prototype.startsWith
StartsWith(s, pfx) ==
  Len(pfx) <= Len(s) /\ SubSeq(s, 1, Len(pfx)) = pfx
\* a || b on strings: the empty string is falsy
OrElse(a, b) ==
  IF a # << >> THEN a ELSE b
Max(a, b) ==
  IF a >= b THEN a ELSE b

VARIABLES
  now,              \* Date.now()
  camActive,        \* CameraManager.isActive(): !!this.stream
  storedKey,        \* an API key is available (GEMINI_API_KEY or localStorage)
  cfg,              \* window.GeminiConfig: [loaded, maxRetries, retryDelay, multNum, multDen]
  server,           \* the responses the recognition provider may give
  mode,             \* CaptureController.mode
  intervalId,       \* CaptureController.intervalId: 0 is null
  timers,           \* live setInterval timers: id -> time of the next callback
  asyncRunning,     \* CaptureController.asyncRunning
  throttleUntil,    \* CaptureController.throttleUntil
  lastCaptureTime,  \* CaptureController.lastCaptureTime
  consecutiveErrors,\* CaptureController.consecutiveErrors
  loops,            \* runAsyncLoop activations: where each one is suspended
  ltask,            \* the captureOnce(true) call of each loop activation
  tasks,            \* captureOnce(false) calls started by timer callbacks
  toggle,           \* the camera-toggle click handler, suspended in toggleFacing
  results,          \* the texts of the items of the results list, newest first
  ev                \* what the last step did (observation only)

vars ==
  << now, camActive, storedKey, cfg, server, results, mode, intervalId, timers, asyncRunning,
     throttleUntil, lastCaptureTime, consecutiveErrors, loops, ltask, tasks,
     toggle, results, ev >>

Modes ==
  {"interval", "async"}
LoopIds ==
  DOMAIN loops
TaskIds ==
  DOMAIN tasks
\* timer handles; the model reuses the handle of a cleared timer
TimerIds ==
  1..2

(* --------------------------- configuration ---------------------------- *)
\* window.GeminiConfig.rateLimit as shipped: retryDelay 5000, maxRetries 1,
\* backoffMultiplier 1.5 (a ratio multNum / multDen)
ProgramCfg ==
  [loaded |-> TRUE, maxRetries |-> 1, retryDelay |-> 5000, multNum |-> 3, multDen |-> 2]
\* the same page with rateLimit.maxRetries set to 0
NoRetryCfg ==
  [ProgramCfg EXCEPT !.maxRetries = 0]
\* window.GeminiConfig undefined: CFG = {} and every ?? default applies
MissingCfg ==
  [loaded |-> FALSE, maxRetries |-> DefaultMaxRetries, retryDelay |-> DefaultRetryDelay,
   multNum |-> 1, multDen |-> 1]
\* retry policies tried by the request-level specification
RetryDelays ==
  {5, 5000}
Multipliers ==
  {<<1, 1>>, <<3, 2>>, <<2, 1>>}
CfgSpace ==
  { [loaded |-> TRUE, maxRetries |-> r, retryDelay |-> d, multNum |-> m[1], multDen |-> m[2]] :
      r \in 0..MaxRetriesBound, d \in RetryDelays, m \in Multipliers }

ConfigNoTextPatterns ==
  { << "n", "o", " ", "t", "e", "x", "t" >>,
    << "n", "o", " ", "t", "e", "x", "t", " ", "d", "e", "t", "e", "c", "t", "e", "d" >>,
    << "n", "o", " ", "t", "e", "x", "t", " ", "v", "i", "s", "i", "b", "l", "e" >>,
    << "n", "o", " ", "r", "e", "a", "d", "a", "b", "l", "e", " ", "t", "e", "x", "t" >>,
    << "n", "o", " ", "t", "e", "x", "t", " ", "f", "o", "u", "n", "d" >>,
    << "n", "o", " ", "t", "e", "x", "t", " ", "i", "n", " ", "t", "h", "e", " ", "i", "m", "a", "g", "e" >>,
    << "n", "o", " ", "v", "i", "s", "i", "b", "l", "e", " ", "t", "e", "x", "t" >> }
DefaultNoTextPatterns ==
  { << "n", "o", " ", "t", "e", "x", "t" >>,
    << "n", "o", " ", "t", "e", "x", "t", " ", "d", "e", "t", "e", "c", "t", "e", "d" >>,
    << "n", "o", " ", "t", "e", "x", "t", " ", "v", "i", "s", "i", "b", "l", "e" >>,
    << "n", "o", " ", "r", "e", "a", "d", "a", "b", "l", "e", " ", "t", "e", "x", "t" >>,
    << "n", "o", " ", "t", "e", "x", "t", " ", "f", "o", "u", "n", "d" >>,
    << "n", "o", " ", "t", "e", "x", "t", " ", "i", "n", " ", "t", "h", "e", " ", "i", "m", "a", "g", "e" >>,
    << "n", "o", " ", "v", "i", "s", "i", "b", "l", "e", " ", "t", "e", "x", "t" >>,
    << "i", "m", "a", "g", "e", " ", "b", "l", "u", "r" >>,
    << "b", "l", "u", "r", "r", "e", "d" >>,
    << "b", "l", "u", "r", "r", "y" >>,
    << "t", "o", "o", " ", "b", "l", "u", "r", "r", "y" >>,
    << "n", "o", " ", "t", "e", "x", "t", " ", "d", "e", "t", "e", "c", "t", " ", "a", "n", "d", " ", "i", "m", "a", "g", "e", " ", "b", "l", "u", "r" >> }
BlurPhrase ==
  << "n", "o", " ", "t", "e", "x", "t", " ", "d", "e", "t", "e", "c", "t", " ", "a", "n", "d", " ", "i", "m", "a", "g", "e", " ", "b", "l", "u", "r" >>
TxtHello ==
  << "H", "E", "L", "L", "O", " ", "W", "O", "R", "L", "D" >>
Upper ==
  << "A", "B", "C", "D", "E", "F", "G", "H", "I", "J", "K", "L", "M", "N", "O", "P", "Q", "R", "S", "T", "U", "V", "W", "X", "Y", "Z" >>
Lower ==
  << "a", "b", "c", "d", "e", "f", "g", "h", "i", "j", "k", "l", "m", "n", "o", "p", "q", "r", "s", "t", "u", "v", "w", "x", "y", "z" >>
\* String.prototype.toLowerCase on the letters A-Z
LowerChar(c) ==
  IF \E i \in 1..Len(Upper) : Upper[i] = c
  THEN Lower[CHOOSE i \in 1..Len(Upper) : Upper[i] = c]
  ELSE c
ToLowerCase(s) ==
  [i \in 1..Len(s) |-> LowerChar(s[i])]

(* ---------------------------- App.cleanOcrResult ---------------------- *)
\* the literal patterns of patternsToRemove, in the order they are applied
PatEzlink ==
  << "@", "e", "z", "l", "i", "n", "k" >>
PatCheckCard ==
  << "C", "h", "e", "c", "k", " ", "c", "a", "r", "d", " ", "b", "a", "l", "a", "n", "c", "e", " ", "a", "n", "d", " ", "r", "e", "l", "o", "a", "d", " ", "v", "i", "a" >>
PatScanQr ==
  << "S", "c", "a", "n", " ", "Q", "R", " ", "t", "o", " ", "d", "o", "w", "n", "l", "o", "a", "d" >>
PatAdult ==
  << "a", "d", "u", "l", "t" >>
PatAdPrefix ==
  << "A", "D", ":", " " >>
LiteralPatterns ==
  << PatEzlink, PatCheckCard, PatScanQr, PatAdult >>
Digits ==
  { "0", "1", "2", "3", "4", "5", "6", "7", "8", "9" }
\* the white space String.prototype.trim strips
WhiteSpace ==
  { " ", "\t", "\n", "\r" }
Min(S) ==
  CHOOSE x \in S : \A y \in S : x <= y
\* s without the n characters from position i on
RemoveAt(s, i, n) ==
  SubSeq(s, 1, i - 1) \o SubSeq(s, i + n, Len(s))
\* does the literal p, under the i flag, match s at position i
LiteralAt(s, i, p) ==
  /\ i + Len(p) - 1 <= Len(s)
  /\ ToLowerCase(SubSeq(s, i, i + Len(p) - 1)) = ToLowerCase(p)
\* s.replace(/p/i, ''): the leftmost match goes, the rest stays
ReplaceLiteral(s, p) ==
  LET hits == { i \in 1..Len(s) : LiteralAt(s, i, p) }
  IN IF hits = {} THEN s ELSE RemoveAt(s, Min(hits), Len(p))
\* the number of digits, at most 3, that s has from position i on
DigitRun(s, i) ==
  IF i <= Len(s) /\ s[i] \in Digits
  THEN IF i + 1 <= Len(s) /\ s[i + 1] \in Digits
       THEN IF i + 2 <= Len(s) /\ s[i + 2] \in Digits THEN 3 ELSE 2
       ELSE 1
  ELSE 0
\* the length of the match of /AD: \d{1,3}\/\d{1,3}/i at position i, 0 if
\* there is none: the first group is followed by the slash, so it is the
\* whole run of digits, and the second group is greedy
AdMatchLen(s, i) ==
  IF ~LiteralAt(s, i, PatAdPrefix) THEN 0
  ELSE LET j == i + Len(PatAdPrefix)
           k == DigitRun(s, j)
       IN IF k = 0 \/ j + k > Len(s) \/ s[j + k] # "/" THEN 0
          ELSE LET m == DigitRun(s, j + k + 1)
               IN IF m = 0 THEN 0 ELSE Len(PatAdPrefix) + k + 1 + m
\* s.replace(/AD: \d{1,3}\/\d{1,3}/i, '')
ReplaceAd(s) ==
  LET hits == { i \in 1..Len(s) : AdMatchLen(s, i) > 0 }
  IN IF hits = {} THEN s ELSE RemoveAt(s, Min(hits), AdMatchLen(s, Min(hits)))
\* patternsToRemove.forEach(pattern => cleanedText = cleanedText.replace(pattern, ''))
RemoveBoilerplate(s) ==
  ReplaceAd(ReplaceLiteral(ReplaceLiteral(ReplaceLiteral(ReplaceLiteral(
    s, LiteralPatterns[1]), LiteralPatterns[2]), LiteralPatterns[3]), LiteralPatterns[4]))
RECURSIVE TrimStart(_)
TrimStart(s) ==
  IF s # << >> /\ s[1] \in WhiteSpace THEN TrimStart(Tail(s)) ELSE s
RECURSIVE TrimEnd(_)
TrimEnd(s) ==
  IF s # << >> /\ s[Len(s)] \in WhiteSpace THEN TrimEnd(SubSeq(s, 1, Len(s) - 1)) ELSE s
\* String.prototype.trim
Trim(s) ==
  TrimEnd(TrimStart(s))
RECURSIVE Split(_)
\* s.split('\n')
Split(s) ==
  LET nl == { i \in 1..Len(s) : s[i] = "\n" }
  IN IF nl = {} THEN << s >>
     ELSE << SubSeq(s, 1, Min(nl) - 1) >> \o Split(SubSeq(s, Min(nl) + 1, Len(s)))
RECURSIVE Join(_)
\* lines.join('\n')
Join(lines) ==
  IF lines = << >> THEN << >>
  ELSE IF Len(lines) = 1 THEN lines[1]
  ELSE lines[1] \o << "\n" >> \o Join(Tail(lines))
\* .map(line => line.trim()).filter(Boolean)
TrimmedLines(s) ==
  SelectSeq([i \in 1..Len(Split(s)) |-> Trim(Split(s)[i])], LAMBDA l : l # << >>)
\* App.cleanOcrResult(text)
CleanOcrResult(text) ==
  IF text = << >> THEN << >> ELSE Join(TrimmedLines(RemoveBoilerplate(text)))

\* const patterns = Array.isArray(cfg.noTextPatterns) && cfg.noTextPatterns.length ? ... : [...]
NoTextPatterns ==
  IF cfg.loaded THEN ConfigNoTextPatterns ELSE DefaultNoTextPatterns
\* a test that takes only the empty text for "no text"
IsNoText_EmptyOnly(lower, patterns) ==
  lower = << >>
\* !lower || patterns.some(p => lower.includes(String(p).toLowerCase()))
IsNoText(lower, patterns) ==
  lower = << >> \/ \E p \in patterns : Includes(lower, ToLowerCase(p))
\* a list that is never cut back
InsertResult_Unbounded(list, text) ==
  << text >> \o list
\* the results list with a new item before its first child, cut back to
\* the 15 latest by removing last children
InsertResult(list, text) ==
  LET l == << text >> \o list
  IN IF Len(l) > MaxResults THEN SubSeq(l, 1, MaxResults) ELSE l
\* UIManager.addResult(text, confidence): the text the list shows for the
\* call, the empty text when the call returns before it adds an item
AddResult(text) ==
  IF text = << >> \/ Trim(text) = << >> THEN << >> ELSE text
\* recognized texts: plain, with boilerplate and blank lines around it, a
\* no-text answer in capitals, the word of a boilerplate pattern alone,
\* blanks, and a phrase that only the built-in pattern list knows
TxtEzlink ==
  << " ", " ", "@", "e", "z", "l", "i", "n", "k", " ", "c", "a", "r", "d", " ", "b", "a", "l", "a", "n", "c", "e", "\n", "H", "E", "L", "L", "O", " ", "W", "O", "R", "L", "D", "\n" >>
TxtNoTextFound ==
  << "N", "o", " ", "T", "e", "x", "t", " ", "F", "o", "u", "n", "d" >>
TxtAdult ==
  << "A", "d", "u", "l", "t" >>
TxtBlank ==
  << " ", " ", "\n", " " >>
TxtTooBlurry ==
  << "T", "o", "o", " ", "b", "l", "u", "r", "r", "y" >>
TxtAdSlot ==
  << "A", "D", ":", " ", "1", "2", "/", "3", "4", "5", " ", "G", "a", "t", "e", " ", "7" >>

(* ----------------------- OCRService.parseTextValue -------------------- *)
\* the character of s at position i, "" past its end
At(s, i) ==
  IF i \in 1..Len(s) THEN s[i] ELSE ""
\* a JSON value as far as parseTextValue looks at it: its type, its
\* characters when it is a string, and for an object whether it has a member
\* named text, whether that member is a string, and the string
JsonValue(t, str, hasText, textIsString, text) ==
  [t |-> t, str |-> str, hasText |-> hasText, textIsString |-> textIsString,
   text |-> text]
JsonScalar(t) ==
  JsonValue(t, << >>, FALSE, FALSE, << >>)
\* the outcome of parsing one construct from position i: a SyntaxError, or
\* the value and the position after it
JsonFail ==
  [ok |-> FALSE, pos |-> 0, v |-> JsonScalar("none")]
JsonOk(pos, v) ==
  [ok |-> TRUE, pos |-> pos, v |-> v]
JsonWhiteSpace ==
  { " ", "\t", "\n", "\r" }
StrText ==
  << "t", "e", "x", "t" >>
RECURSIVE JsonSkip(_, _)
\* the first position from i on that holds no JSON white space
JsonSkip(s, i) ==
  IF At(s, i) \in JsonWhiteSpace THEN JsonSkip(s, i + 1) ELSE i
RECURSIVE JsonDigits(_, _)
\* the first position from i on that holds no digit
JsonDigits(s, i) ==
  IF At(s, i) \in Digits THEN JsonDigits(s, i + 1) ELSE i
\* the character an escape \c stands for, "" when c starts no escape taken here
\* (\b, \f and \uXXXX are not among the texts tried)
JsonEscape(c) ==
  CASE c = "\"" -> "\""
    [] c = "\\" -> "\\"
    [] c = "/" -> "/"
    [] c = "n" -> "\n"
    [] c = "t" -> "\t"
    [] c = "r" -> "\r"
    [] OTHER -> ""
RECURSIVE JsonChars(_, _, _)
\* the rest of a string literal from position i on, acc being its characters
\* so far: ends at the closing quote, fails at the end of the text, at a raw
\* control character and at an unknown escape
JsonChars(s, i, acc) ==
  LET c == At(s, i) IN
  IF c = "" \/ c \in { "\n", "\t", "\r" } THEN JsonFail
  ELSE IF c = "\"" THEN JsonOk(i + 1, JsonValue("string", acc, FALSE, FALSE, << >>))
  ELSE IF c = "\\"
       THEN IF JsonEscape(At(s, i + 1)) = "" THEN JsonFail
            ELSE JsonChars(s, i + 2, Append(acc, JsonEscape(At(s, i + 1))))
  ELSE JsonChars(s, i + 1, Append(acc, c))
\* a number: -? (0 | [1-9][0-9]*) (. [0-9]+)? ([eE] [+-]? [0-9]+)?
JsonNumber(s, i) ==
  LET a == IF At(s, i) = "-" THEN i + 1 ELSE i
      b == IF At(s, a) = "0" THEN a + 1 ELSE JsonDigits(s, a)
      c == IF At(s, b) = "." THEN JsonDigits(s, b + 1) ELSE b
      e == IF At(s, c) \in { "e", "E" }
           THEN (IF At(s, c + 1) \in { "+", "-" } THEN c + 2 ELSE c + 1)
           ELSE c
      d == IF e = c THEN c ELSE JsonDigits(s, e)
  IN IF b = a \/ (At(s, b) = "." /\ c = b + 1) \/ (e # c /\ d = e) THEN JsonFail
     ELSE JsonOk(d, JsonScalar("number"))
\* one of the words null, true and false
JsonWord(s, i, w, t) ==
  IF i + Len(w) - 1 <= Len(s) /\ SubSeq(s, i, i + Len(w) - 1) = w
  THEN JsonOk(i + Len(w), JsonScalar(t)) ELSE JsonFail
RECURSIVE JsonParseValue(_, _)
RECURSIVE JsonElements(_, _)
RECURSIVE JsonMembers(_, _, _)
\* the elements of an array after its first one, from position i on
JsonElements(s, i) ==
  LET j == JsonSkip(s, i) IN
  IF At(s, j) = "]" THEN JsonOk(j + 1, JsonScalar("array"))
  ELSE IF At(s, j) # "," THEN JsonFail
  ELSE LET r == JsonParseValue(s, JsonSkip(s, j + 1))
       IN IF r.ok THEN JsonElements(s, r.pos) ELSE JsonFail
\* the members of an object from the name at position i on, obj being the
\* object so far: a later member of the same name replaces an earlier one
JsonMembers(s, i, obj) ==
  IF At(s, i) # "\"" THEN JsonFail
  ELSE LET k == JsonChars(s, i + 1, << >>) IN
       IF ~k.ok \/ At(s, JsonSkip(s, k.pos)) # ":" THEN JsonFail
       ELSE LET r == JsonParseValue(s, JsonSkip(s, JsonSkip(s, k.pos) + 1)) IN
            IF ~r.ok THEN JsonFail
            ELSE LET o == IF k.v.str = StrText
                          THEN JsonValue("object", << >>, TRUE, r.v.t = "string", r.v.str)
                          ELSE obj
                     j == JsonSkip(s, r.pos)
                 IN IF At(s, j) = "}" THEN JsonOk(j + 1, o)
                    ELSE IF At(s, j) = "," THEN JsonMembers(s, JsonSkip(s, j + 1), o)
                    ELSE JsonFail
\* the value that starts at position i
JsonParseValue(s, i) ==
  LET c == At(s, i) IN
  IF c = "\"" THEN JsonChars(s, i + 1, << >>)
  ELSE IF c = "n" THEN JsonWord(s, i, << "n", "u", "l", "l" >>, "null")
  ELSE IF c = "t" THEN JsonWord(s, i, << "t", "r", "u", "e" >>, "boolean")
  ELSE IF c = "f" THEN JsonWord(s, i, << "f", "a", "l", "s", "e" >>, "boolean")
  ELSE IF c = "-" \/ c \in Digits THEN JsonNumber(s, i)
  ELSE IF c = "["
       THEN LET j == JsonSkip(s, i + 1) IN
            IF At(s, j) = "]" THEN JsonOk(j + 1, JsonScalar("array"))
            ELSE LET r == JsonParseValue(s, j)
                 IN IF r.ok THEN JsonElements(s, r.pos) ELSE JsonFail
  ELSE IF c = "{"
       THEN LET j == JsonSkip(s, i + 1) IN
            IF At(s, j) = "}" THEN JsonOk(j + 1, JsonScalar("object"))
            ELSE JsonMembers(s, j, JsonScalar("object"))
  ELSE JsonFail
\* JSON.parse(value): one value, white space around it and nothing else
JsonParse(s) ==
  LET r == JsonParseValue(s, JsonSkip(s, 1))
  IN IF r.ok /\ JsonSkip(s, r.pos) = Len(s) + 1 THEN r ELSE JsonFail
\* a test that takes any member named text
HasStringText_AnyText(v) ==
  v.t = "object" /\ v.hasText
\* parsed && typeof parsed.text === 'string'
HasStringText(v) ==
  v.t = "object" /\ v.hasText /\ v.textIsString
\* OCRService.parseTextValue(value) on a string
ParseTextValue(value) ==
  LET parsed == JsonParse(value)
  IN IF parsed.ok /\ HasStringText(parsed.v) THEN parsed.v.text ELSE value

(* ------------------------------ responses ----------------------------- *)
\* status 0: fetch rejected (no response), msg is e.message;
\* otherwise msg is the body's error.message (empty: absent or unparseable),
\* txt the response's statusText (empty under HTTP/2) and text the candidate text
Rejected ==
  [status |-> 0, msg |-> MsgFailedToFetch, txt |-> << >>, text |-> << >>]
Responses ==
  { Rejected,
    [status |-> 200, msg |-> << >>, txt |-> << >>, text |-> TxtHello],
    [status |-> 200, msg |-> << >>, txt |-> << >>, text |-> BlurPhrase],
    [status |-> 429, msg |-> MsgQuota, txt |-> TxtTooMany, text |-> << >>],
    [status |-> 429, msg |-> MsgCode429, txt |-> << >>, text |-> << >>],
    [status |-> 500, msg |-> << >>, txt |-> TxtInternal, text |-> << >>],
    [status |-> 503, msg |-> << >>, txt |-> << >>, text |-> << >>],
    [status |-> 400, msg |-> MsgBadKey, txt |-> TxtBadRequest, text |-> << >>] }
\* the responses tried together with the scheduler: a success, and a
\* rate-limit answer whose message quotes the status code
\* successful answers with each of the recognized texts
TextResponses ==
  { [status |-> 200, msg |-> << >>, txt |-> << >>, text |-> x] :
      x \in { TxtHello, BlurPhrase, TxtEzlink, TxtNoTextFound, TxtAdult, TxtBlank,
               TxtAdSlot, TxtTooBlurry, << >> } }
MainResponses ==
  { [status |-> 200, msg |-> << >>, txt |-> << >>, text |-> TxtHello],
    [status |-> 429, msg |-> MsgCode429, txt |-> << >>, text |-> << >>] }
\* Response.ok
Ok(r) ==
  r.status >= 200 /\ r.status <= 299

(* ------------------------------ statuses ------------------------------ *)
\* one UIManager.setStatus(text, type) call
St(text, type) ==
  [text |-> text, type |-> type, n |-> 0]
\* `Throttled - waiting ${remain}s`
StThrottled(remain) ==
  [text |-> "Throttled - waiting", type |-> "warning", n |-> remain]
\* no setStatus call was made
NoStatus ==
  [text |-> "", type |-> "none", n |-> 0]

(* ------------------------- OCRService.request ------------------------- *)
RECURSIVE Pow(_, _)
\* Math.pow on a non-negative integer exponent
Pow(b, e) ==
  IF e = 0 THEN 1 ELSE b * Pow(b, e - 1)
\* truncation in place of rounding
RoundDiv_Floor(n, d) ==
  n \div d
\* Math.round(x) for x = n / d >= 0: floor(x + 1/2)
RoundDiv(n, d) ==
  (2 * n + d) \div (2 * d)
\* const waitMs = Math.round(baseDelay * Math.pow(backoff, attempt))
WaitMs(c, attempt) ==
  RoundDiv(c.retryDelay * Pow(c.multNum, attempt), Pow(c.multDen, attempt))
\* every 5xx status taken as transient
IsRetriable_Any5xx(st) ==
  st = 429 \/ (st >= 500 /\ st <= 599)
\* response.status === 429 || response.status === 500
IsRetriable(st) ==
  st = 429 \/ st = 500

\* one captureOnce call: where it is suspended, and the locals of the
\* request it has made (sent and waited count its fetch calls and the
\* milliseconds it has asked U.sleep for between them; last is
\* lastError?.error?.message || response.statusText)
IdleTask ==
  [pc |-> "free", attempt |-> 0, wake |-> 0, blocked |-> FALSE,
   sent |-> 0, waited |-> 0, last |-> << >>]
\* the result of running a captureOnce call up to its next suspension point:
\* t the suspended call (IdleTask when it has returned), call its locals when
\* it stopped, res how it stands, st the last status it reported, thr / key
\* the values it leaves in throttleUntil and the key store, err the error it
\* caught and http the status of the response it handled (0 rejected fetch,
\* -1 none); text the text request() returned and shown the text added to
\* the results list, both empty until a recognition succeeds
Out(t, call, res, st, thr, key, err, http) ==
  [t |-> t, call |-> call, res |-> res, st |-> st, thr |-> thr, key |-> key,
   err |-> err, http |-> http, text |-> << >>, shown |-> << >>]

\* a catch that reports nothing
ErrorStatus_Silent(e) ==
  NoStatus
\* the status chosen by catch (e) in captureOnce
ErrorStatus(e) ==
  IF Includes(e, StrApiKey) THEN St("API key required - please set GEMINI_API_KEY", "error")
  ELSE IF Includes(e, StrNetwork) THEN St("Network connection error", "error")
  ELSE IF Includes(e, Str429) \/ Includes(e, Str500)
       THEN St("Service temporarily unavailable", "error")
  ELSE St("OCR processing failed", "error")
\* if (e.message.includes('429') || e.message.includes('500'))
TripsGate(e) ==
  Includes(e, Str429) \/ Includes(e, Str500)
\* a trip that extends the cooldown that is running
GateAfter_Extend(e) ==
  IF TripsGate(e) THEN throttleUntil + ThrottleCooldown ELSE throttleUntil
\* this.throttleUntil once catch (e) is through: U.now() + 5000 or untouched
GateAfter(e) ==
  IF TripsGate(e) THEN now + ThrottleCooldown ELSE throttleUntil
\* catch (e) { ... } finally { ... } of captureOnce: the call returns normally
Caught(t, e, http, key) ==
  Out(IdleTask, t, "failed", ErrorStatus(e), GateAfter(e), key, e, http)

\* captureOnce from the no-text test on: the status and the item added to
\* the results list, lower being cleanedText.trim().toLowerCase()
Reported(t, r, text, cleanedText, lower) ==
  LET isNoText == IsNoText(lower, NoTextPatterns)
      st == IF isNoText
            THEN (IF lower = BlurPhrase THEN St("Image blur", "warning")
                                        ELSE St("No text detected", "warning"))
            ELSE St("OCR completed", "success")
      out == Out(IdleTask, t, "ok", st, throttleUntil, storedKey, << >>, r.status)
  IN [out EXCEPT !.text = text,
                 !.shown = IF isNoText THEN << >> ELSE AddResult(cleanedText)]
\* captureOnce once the text is cleaned
Cleaned(t, r, text, cleanedText) ==
  Reported(t, r, text, cleanedText, ToLowerCase(Trim(cleanedText)))
\* captureOnce once request() has returned text
Recognized(t, r, text) ==
  Cleaned(t, r, text, CleanOcrResult(text))
\* captureOnce once request() has returned r's text: the cleaning, the
\* no-text test, the status and the item added to the results list
Succeeded(t, r) ==
  Recognized(t, r, ParseTextValue(r.text))

\* a request() that calls fetch before it looks at the key and the model
RequestStart_FetchFirst(t, st, keyIn) ==
  LET f == [t EXCEPT !.pc = "fetch", !.attempt = 0, !.sent = 1, !.waited = 0]
  IN Out(f, f, "pending", st, throttleUntil, storedKey \/ keyIn, << >>, -1)
\* request(): from its first line to the first await fetch
RequestStart(t, st, keyIn) ==
  LET key == storedKey \/ keyIn IN
  IF ~key THEN Caught(t, MsgNoApiKey, -1, key)
  ELSE IF ~cfg.loaded THEN Caught(t, MsgNoModel, -1, key)
  ELSE LET f == [t EXCEPT !.pc = "fetch", !.attempt = 0, !.sent = 1, !.waited = 0]
       IN Out(f, f, "pending", st, throttleUntil, key, << >>, -1)

\* a retry that waits although the retry ceiling is reached
MayRetry_NoCeiling(st, attempt) ==
  IsRetriable(st) /\ attempt <= cfg.maxRetries
\* if ((status === 429 || status === 500) && attempt < maxRetries)
MayRetry(st, attempt) ==
  IsRetriable(st) /\ attempt < cfg.maxRetries
\* a rejected fetch that is waited on and tried again
NetworkError_Retried(t, r) ==
  LET b == [t EXCEPT !.pc = "backoff", !.wake = now + WaitMs(cfg, t.attempt),
                     !.waited = @ + WaitMs(cfg, t.attempt), !.last = r.msg]
  IN Out(b, b, "pending", NoStatus, throttleUntil, storedKey, << >>, 0)
\* catch (e) { throw new Error('Network error: ' + e.message) } around fetch
NetworkError(t, r) ==
  Caught(t, PfxNetwork \o r.msg, 0, storedKey)

\* the body of the retry loop once fetch has settled with r
OnResponse(t, r) ==
  IF r.status = 0 THEN NetworkError(t, r)
  ELSE IF Ok(r) THEN Succeeded(t, r)
  ELSE IF MayRetry(r.status, t.attempt)
       THEN LET w == WaitMs(cfg, t.attempt)
                b == [t EXCEPT !.pc = "backoff", !.wake = now + w,
                               !.waited = @ + w, !.last = OrElse(r.msg, r.txt)]
            IN Out(b, b, "pending", NoStatus, throttleUntil, storedKey, << >>, r.status)
  ELSE Caught(t, PfxApi \o OrElse(OrElse(r.msg, r.txt), StrUnknownError),
              r.status, storedKey)

StrUnknown ==
  << "U", "n", "k", "n", "o", "w", "n" >>
\* after await U.sleep(waitMs): attempt++; continue; and the loop test
AfterBackoff(t) ==
  LET a == t.attempt + 1 IN
  IF a <= cfg.maxRetries
  THEN LET f == [t EXCEPT !.pc = "fetch", !.attempt = a, !.wake = 0, !.sent = @ + 1]
       IN Out(f, f, "pending", NoStatus, throttleUntil, storedKey, << >>, -1)
  ELSE Caught([t EXCEPT !.attempt = a],
              PfxApiRetries \o OrElse(t.last, StrUnknown), -1, storedKey)

\* the results list once a captureOnce call has run up to out
ResultsAfter(out) ==
  IF out.shown = << >> THEN results ELSE InsertResult(results, out.shown)

(* --------------------- CaptureController.captureOnce ------------------ *)
\* a capture that goes on to request() without a frame
Capture_NoCameraCheck(t, st, cam, keyIn) ==
  RequestStart(t, st, keyIn)
\* from captureJpeg to the first suspension of request()
Capture(t, st, cam, keyIn) ==
  IF ~cam
  THEN Out(IdleTask, t, "aborted", st, throttleUntil, storedKey, << >>, -1)
  ELSE RequestStart(t, st, keyIn)

\* Math.ceil((this.throttleUntil - now) / 1000)
RemainSeconds ==
  (throttleUntil - now + 999) \div 1000

\* a sleep on the gate that is over at once
GateWake_Immediate ==
  now
\* await U.sleep(this.throttleUntil - now): the time at which it is over
GateWake ==
  now + (throttleUntil - now)
\* a gate that is still shut at the instant the cooldown ends
IsBlocked_Inclusive ==
  throttleUntil >= now
\* if (this.throttleUntil > now)
IsBlocked ==
  throttleUntil > now

\* captureOnce(waitForResponse) from its first line
CaptureOnce(waitForResponse, cam, keyIn) ==
  LET blocked == IsBlocked
      st == IF blocked THEN StThrottled(RemainSeconds) ELSE NoStatus
      t0 == [IdleTask EXCEPT !.blocked = blocked]
  IN IF blocked /\ waitForResponse
     THEN LET g == [t0 EXCEPT !.pc = "gateSleep", !.wake = GateWake]
          IN Out(g, g, "pending", st, throttleUntil, storedKey, << >>, -1)
     ELSE Capture(t0, st, cam, keyIn)

(* ------------------------------ observation --------------------------- *)
\* the last step ran captureOnce call id of a loop ("loop") or of a timer
\* callback ("task") up to the suspension point described by out, and left
\* st as the last status reported
EvCall(op, kind, id, out, st) ==
  [op |-> op, kind |-> kind, id |-> id, res |-> out.res, http |-> out.http,
   err |-> out.err, attempt |-> out.call.attempt, sent |-> out.call.sent,
   waited |-> out.call.waited, blocked |-> out.call.blocked, st |-> st,
   text |-> out.text, shown |-> out.shown, arg |-> << >>, ret |-> << >>]
\* the last step ran no captureOnce call; st is the last status it reported
\* (arg and ret are set by the steps that call one function on its own)
EvPlain(op, st) ==
  [op |-> op, kind |-> "none", id |-> 0, res |-> "none", http |-> -1,
   err |-> << >>, attempt |-> 0, sent |-> 0, waited |-> 0, blocked |-> FALSE,
   st |-> st, text |-> << >>, shown |-> << >>, arg |-> << >>, ret |-> << >>]

(* -------------------- CaptureController.runAsyncLoop ------------------ *)
\* one activation of runAsyncLoop: "cycle" inside await captureOnce(true),
\* "sleep" inside the await U.sleep that follows a cycle; delay is the
\* argument of that sleep and fails counts the failed cycles in a row
NoLoop ==
  [pc |-> "none", wake |-> 0, delay |-> 0, fails |-> 0]
FailsAfter(res, fails) ==
  IF res = "failed" THEN (IF fails >= MaxConsecutiveErrors THEN 1 ELSE fails + 1)
  ELSE IF res = "ok" THEN 0
  ELSE fails
\* a delay that does not look at the processing time
DynamicDelay_Fixed(processingTime) ==
  MinDelay
\* const dynamicDelay = Math.max(1000, processingTime * 0.1)
DynamicDelay(processingTime) ==
  Max(MinDelay, processingTime \div 10)
\* a loop that ends when a cycle has failed
LoopNext_HaltOnError(out, lct, fails) ==
  IF out.res = "pending"
  THEN [pc |-> "cycle", wake |-> 0, delay |-> 0, fails |-> fails]
  ELSE IF out.res = "failed" THEN NoLoop
  ELSE [pc |-> "sleep", wake |-> now + DynamicDelay(now - lct),
        delay |-> DynamicDelay(now - lct), fails |-> 0]
\* the loop after captureOnce has run up to out: still inside the await, or
\* (the await never rejects: captureOnce catches every error of request)
\* consecutiveErrors = 0 and asleep for the dynamic delay
LoopNext(out, lct, fails) ==
  IF out.res = "pending"
  THEN [pc |-> "cycle", wake |-> 0, delay |-> 0, fails |-> fails]
  ELSE LET d == DynamicDelay(now - lct)
       IN [pc |-> "sleep", wake |-> now + d, delay |-> d,
           fails |-> FailsAfter(out.res, fails)]
\* a counter that goes up by one with every failed cycle
ErrorsNext_Counting(out, errs) ==
  IF out.res = "pending" THEN errs
  ELSE IF out.res = "failed" THEN errs + 1
  ELSE 0
\* this.consecutiveErrors after that stretch of the loop
ErrorsNext(out, errs) ==
  IF out.res = "pending" THEN errs ELSE 0

FreeLoops ==
  {l \in LoopIds : loops[l].pc = "none"}
FreeTasks ==
  {i \in TaskIds : tasks[i].pc = "free"}
KeyInputs ==
  IF storedKey THEN {FALSE} ELSE BOOLEAN

(* ------------------ CaptureController.stop and start ------------------ *)
\* a stop() that forgets the timer without clearing it
StopResult_KeepTimer ==
  [intervalId |-> 0,
   timers |-> timers,
   asyncRunning |-> FALSE,
   consecutiveErrors |-> 0]
\* a stop() that flips the running flag
StopResult_Toggle ==
  [intervalId |-> 0,
   timers |-> {tm \in timers : tm.id # intervalId},
   asyncRunning |-> ~asyncRunning,
   consecutiveErrors |-> 0]
\* the fields stop() writes: clearInterval(intervalId), intervalId = null,
\* asyncRunning = false, consecutiveErrors = 0
StopResult ==
  [intervalId |-> 0,
   timers |-> {tm \in timers : tm.id # intervalId},
   asyncRunning |-> FALSE,
   consecutiveErrors |-> 0]
\* if (this.camera.isActive()) this.ui.setStatus('Camera active', 'success')
StopStatus(cam) ==
  IF cam THEN St("Camera active", "success") ELSE NoStatus

\* a stop() that also opens the gate
DoStop_ResetGate(stAfter, op) ==
  /\ intervalId' = StopResult.intervalId
  /\ timers' = StopResult.timers
  /\ asyncRunning' = StopResult.asyncRunning
  /\ consecutiveErrors' = StopResult.consecutiveErrors
  /\ ev' = EvPlain(op, stAfter)
  /\ throttleUntil' = 0
  /\ UNCHANGED << lastCaptureTime, loops, ltask, storedKey >>
\* stop(), with stAfter the last status reported by the handler
DoStop(stAfter, op) ==
  /\ intervalId' = StopResult.intervalId
  /\ timers' = StopResult.timers
  /\ asyncRunning' = StopResult.asyncRunning
  /\ consecutiveErrors' = StopResult.consecutiveErrors
  /\ ev' = EvPlain(op, stAfter)
  /\ UNCHANGED << lastCaptureTime, loops, ltask, throttleUntil, storedKey >>

\* start() with the camera active, in mode m: stop(), then the timer or
\* runAsyncLoop() up to its first await; a request() that throws before its
\* first await is caught by captureOnce after start() has returned, so its
\* status is the last one
DoStart(m, keyIn, op) ==
  LET s == StopResult IN
  IF m = "interval"
  THEN IF s.intervalId # 0
       THEN DoStop(StopStatus(TRUE), op)
       ELSE /\ \E id \in TimerIds :
                 /\ id \notin {tm.id : tm \in s.timers}
                 /\ \A j \in TimerIds : j < id => j \in {tm.id : tm \in s.timers}
                 /\ intervalId' = id
                 /\ timers' = s.timers \cup {[id |-> id, due |-> now + IntervalPeriod]}
            /\ asyncRunning' = s.asyncRunning
            /\ consecutiveErrors' = s.consecutiveErrors
            /\ ev' = EvPlain(op, St("Auto-capture active", "success"))
            /\ UNCHANGED << lastCaptureTime, loops, ltask, throttleUntil, storedKey >>
  ELSE IF s.asyncRunning
       THEN DoStop(StopStatus(TRUE), op)
       ELSE /\ FreeLoops # {}
            /\ LET l   == CHOOSE x \in FreeLoops : \A y \in FreeLoops : x <= y
                   out == CaptureOnce(TRUE, TRUE, keyIn)
               IN /\ loops' = [loops EXCEPT ![l] = LoopNext(out, now, 0)]
                  /\ ltask' = [ltask EXCEPT ![l] = out.t]
                  /\ throttleUntil' = out.thr
                  /\ storedKey' = out.key
                  /\ ev' = EvCall(op, "loop", l, out,
                                   IF out.res = "failed" THEN out.st
                                   ELSE St("Auto-capture active", "success"))
            /\ intervalId' = s.intervalId
            /\ timers' = s.timers
            /\ asyncRunning' = TRUE
            /\ consecutiveErrors' = 0
            /\ lastCaptureTime' = now

\* a start() that calls stop() before it looks at the camera
Start_StopsFirst(keyIn, op) ==
  IF camActive THEN DoStart(mode, keyIn, op) ELSE DoStop(NoStatus, op)
\* start(): if (!this.camera.isActive()) return; and the rest of it
Start(keyIn, op) ==
  IF camActive
  THEN DoStart(mode, keyIn, op)
  ELSE /\ ev' = EvPlain(op, NoStatus)
       /\ UNCHANGED << intervalId, timers, asyncRunning, consecutiveErrors,
                       lastCaptureTime, loops, ltask, throttleUntil, storedKey >>

(* ----------------------- App.bindEvents handlers ---------------------- *)
\* start button (and autoStartCamera): await camera.start(); setMode; start()
ClickStart(m, keyIn) ==
  /\ ~camActive
  /\ camActive' = TRUE
  /\ mode' = m
  /\ DoStart(m, keyIn, "start")
  /\ UNCHANGED << now, cfg, server, results, tasks, toggle >>

\* stop button and Escape key: capture.stop(); camera.stop()
ClickStop ==
  /\ DoStop(St("Camera stopped", "warning"), "stop")
  /\ camActive' = FALSE
  /\ UNCHANGED << now, cfg, server, results, mode, tasks, toggle >>

\* capture-mode radio: setMode(value); stop(); if camera active, start()
ModeChange(m, keyIn) ==
  /\ mode' = m
  /\ IF camActive THEN DoStart(m, keyIn, "start")
                  ELSE DoStop(StopStatus(FALSE), "stop")
  /\ UNCHANGED << now, camActive, cfg, server, results, tasks, toggle >>

\* visibilitychange with document.hidden: stop()
PageHidden ==
  /\ DoStop(StopStatus(camActive), "stop")
  /\ UNCHANGED << now, camActive, cfg, server, results, mode, tasks, toggle >>

\* visibilitychange with the page visible again: start() if the camera is active
PageVisible(keyIn) ==
  /\ camActive
  /\ DoStart(mode, keyIn, "start")
  /\ UNCHANGED << now, camActive, cfg, server, results, mode, tasks, toggle >>

\* toggle button, up to await camera.toggleFacing() (which first awaits
\* the device list, the camera still running)
ClickToggle ==
  /\ camActive
  /\ toggle.pc = "idle"
  /\ toggle' = [pc |-> "picking", wasRunning |-> (asyncRunning \/ intervalId # 0)]
  /\ DoStop(St("Switching camera...", "warning"), "stop")
  /\ UNCHANGED << now, camActive, cfg, server, results, mode, tasks >>

\* toggleFacing after the device list: this.stop(); await this.start(...)
ToggleCameraStop ==
  /\ toggle.pc = "picking"
  /\ toggle' = [toggle EXCEPT !.pc = "starting"]
  /\ camActive' = FALSE
  /\ ev' = EvPlain("toggleCameraStop", St("Camera stopped", "warning"))
  /\ UNCHANGED << now, storedKey, cfg, server, results, mode, intervalId, timers, asyncRunning,
                  throttleUntil, lastCaptureTime, consecutiveErrors, loops, ltask, tasks >>

\* toggle button, after await camera.toggleFacing(): ok says whether the
\* new camera stream was obtained
ToggleDone(ok, keyIn) ==
  /\ toggle.pc = "starting"
  /\ toggle' = [pc |-> "idle", wasRunning |-> FALSE]
  /\ camActive' = (camActive \/ ok)
  /\ IF toggle.wasRunning /\ (camActive \/ ok)
     THEN DoStart(mode, keyIn, "start")
     ELSE /\ ev' = EvPlain("toggleDone",
                           IF ok THEN St("Camera switched", "success")
                                 ELSE St("Switch camera failed", "error"))
          /\ UNCHANGED << intervalId, timers, asyncRunning, consecutiveErrors,
                          lastCaptureTime, loops, ltask, throttleUntil, storedKey >>
  /\ UNCHANGED << now, cfg, server, results, mode, tasks >>

(* ------------------------- timer callbacks ---------------------------- *)
\* a captureOnce(false) call has run up to out
TaskStep(i, out, op) ==
  /\ tasks' = [tasks EXCEPT ![i] = out.t]
  /\ throttleUntil' = out.thr
  /\ storedKey' = out.key
  /\ results' = ResultsAfter(out)
  /\ ev' = EvCall(op, "task", i, out, out.st)
  /\ UNCHANGED << now, camActive, cfg, server, mode, intervalId, asyncRunning, lastCaptureTime,
                  consecutiveErrors, loops, ltask, toggle >>

\* a timer callback that is skipped while an earlier cycle is in flight
IntervalTick_Serialized(keyIn) ==
  /\ \A i \in TaskIds : tasks[i].pc = "free"
  /\ \E tm \in timers :
       /\ now >= tm.due
       /\ timers' = (timers \ {tm}) \cup {[id |-> tm.id, due |-> now + IntervalPeriod]}
  /\ TaskStep(CHOOSE x \in FreeTasks : \A y \in FreeTasks : x <= y,
              CaptureOnce(FALSE, camActive, keyIn), "tick")
\* setInterval callback: this.captureOnce(false)
IntervalTick(keyIn) ==
  /\ FreeTasks # {}
  /\ \E tm \in timers :
       /\ now >= tm.due
       /\ timers' = (timers \ {tm}) \cup {[id |-> tm.id, due |-> now + IntervalPeriod]}
  /\ TaskStep(CHOOSE x \in FreeTasks : \A y \in FreeTasks : x <= y,
              CaptureOnce(FALSE, camActive, keyIn), "tick")

\* a captureOnce(false) call resumes: fetch settled with r
TaskRespond(i, r) ==
  /\ tasks[i].pc = "fetch"
  /\ TaskStep(i, OnResponse(tasks[i], r), "respond")
  /\ UNCHANGED timers

\* a captureOnce(false) call resumes: the backoff sleep is over
TaskBackoffDone(i) ==
  /\ tasks[i].pc = "backoff"
  /\ now >= tasks[i].wake
  /\ TaskStep(i, AfterBackoff(tasks[i]), "backoffDone")
  /\ UNCHANGED timers

(* ------------------------- the continuous loop ------------------------ *)
\* a loop that does not await its captureOnce call
LoopStep_NoAwait(l, out, lct, op) ==
  /\ loops' = [loops EXCEPT ![l] = [pc |-> "sleep", wake |-> now + MinDelay,
                                    delay |-> MinDelay, fails |-> loops[l].fails]]
  /\ ltask' = [ltask EXCEPT ![l] = out.t]
  /\ consecutiveErrors' = 0
  /\ lastCaptureTime' = lct
  /\ throttleUntil' = out.thr
  /\ storedKey' = out.key
  /\ results' = ResultsAfter(out)
  /\ ev' = EvCall(op, "loop", l, out, out.st)
  /\ UNCHANGED << now, camActive, cfg, server, mode, intervalId, timers, asyncRunning,
                  tasks, toggle >>
\* loop l runs its captureOnce(true) call up to out, then on to its next await
LoopStep(l, out, lct, op) ==
  /\ loops' = [loops EXCEPT ![l] = LoopNext(out, lct, loops[l].fails)]
  /\ ltask' = [ltask EXCEPT ![l] = out.t]
  /\ consecutiveErrors' = ErrorsNext(out, consecutiveErrors)
  /\ lastCaptureTime' = lct
  /\ throttleUntil' = out.thr
  /\ storedKey' = out.key
  /\ results' = ResultsAfter(out)
  /\ ev' = EvCall(op, "loop", l, out, out.st)
  /\ UNCHANGED << now, camActive, cfg, server, mode, intervalId, timers, asyncRunning,
                  tasks, toggle >>

\* a loop condition that does not look at the running flag
LoopCondition_CameraOnly ==
  camActive
\* while (this.asyncRunning && this.camera.isActive())
LoopCondition ==
  asyncRunning /\ camActive

\* the sleep after a cycle is over: test the loop condition, then either
\* leave the loop or start the next cycle
LoopWake(l, keyIn) ==
  /\ loops[l].pc = "sleep"
  /\ now >= loops[l].wake
  /\ IF LoopCondition
     THEN LoopStep(l, CaptureOnce(TRUE, camActive, keyIn), now, "loopWake")
     ELSE /\ loops' = [loops EXCEPT ![l] = NoLoop]
          /\ ev' = [EvPlain("loopExit", NoStatus) EXCEPT !.kind = "loop", !.id = l]
          /\ UNCHANGED << now, camActive, storedKey, cfg, server, results, mode, intervalId, timers,
                          asyncRunning, throttleUntil, lastCaptureTime,
                          consecutiveErrors, ltask, tasks, toggle >>

\* the sleep on the throttle inside captureOnce(true) is over
LoopGateWake(l, keyIn) ==
  /\ loops[l].pc = "cycle"
  /\ ltask[l].pc = "gateSleep"
  /\ now >= ltask[l].wake
  /\ LoopStep(l, Capture([ltask[l] EXCEPT !.wake = 0], NoStatus, camActive, keyIn),
              lastCaptureTime, "gateWake")

\* fetch settled with r inside the loop's cycle
LoopRespond(l, r) ==
  /\ loops[l].pc = "cycle"
  /\ ltask[l].pc = "fetch"
  /\ LoopStep(l, OnResponse(ltask[l], r), lastCaptureTime, "respond")

\* the backoff sleep of request() is over inside the loop's cycle
LoopBackoffDone(l) ==
  /\ loops[l].pc = "cycle"
  /\ ltask[l].pc = "backoff"
  /\ now >= ltask[l].wake
  /\ LoopStep(l, AfterBackoff(ltask[l]), lastCaptureTime, "backoffDone")

(* -------------------------------- time -------------------------------- *)
\* the instants at which the model looks at the clock are ClockSteps apart
ClockSteps ==
  {5000}
Advance(d) ==
  /\ now + d <= MaxTime
  /\ now' = now + d
  /\ ev' = EvPlain("advance", NoStatus)
  /\ UNCHANGED << camActive, storedKey, cfg, server, results, mode, intervalId, timers, asyncRunning,
                  throttleUntil, lastCaptureTime, consecutiveErrors, loops, ltask,
                  tasks, toggle >>

(* --------------------------- specification ---------------------------- *)
\* new CaptureController(...), camera not started: nLoops loop slots and
\* nTasks slots for timer callbacks, an API key stored or not (keys), a
\* configuration out of cfgs, a server answering out of srv
InitWith(nLoops, nTasks, keys, cfgs, srv) ==
  /\ now = 0
  /\ camActive = FALSE
  /\ storedKey \in keys
  /\ cfg \in cfgs
  /\ server = srv
  /\ mode = "async"
  /\ intervalId = 0
  /\ timers = {}
  /\ asyncRunning = FALSE
  /\ throttleUntil = 0
  /\ lastCaptureTime = 0
  /\ consecutiveErrors = 0
  /\ loops = [l \in 1..nLoops |-> NoLoop]
  /\ ltask = [l \in 1..nLoops |-> IdleTask]
  /\ tasks = [i \in 1..nTasks |-> IdleTask]
  /\ toggle = [pc |-> "idle", wasRunning |-> FALSE]
  /\ results = << >>
  /\ ev = EvPlain("init", NoStatus)
\* the page before anything has run, with the argument of the one function
\* call that is going to be made drawn from args
InitCall(args) ==
  /\ now = 0
  /\ camActive = FALSE
  /\ storedKey = TRUE
  /\ cfg = ProgramCfg
  /\ server = {}
  /\ mode = "async"
  /\ intervalId = 0
  /\ timers = {}
  /\ asyncRunning = FALSE
  /\ throttleUntil = 0
  /\ lastCaptureTime = 0
  /\ consecutiveErrors = 0
  /\ loops = [l \in 1..1 |-> NoLoop]
  /\ ltask = [l \in 1..1 |-> IdleTask]
  /\ tasks = [i \in 1..1 |-> IdleTask]
  /\ toggle = [pc |-> "idle", wasRunning |-> FALSE]
  /\ results = << >>
  /\ \E x \in args : ev = [EvPlain("init", NoStatus) EXCEPT !.arg = x]

\* the page as shipped, and with retries switched off
Init ==
  InitWith(MaxLoops, MaxInFlight, BOOLEAN, {ProgramCfg, NoRetryCfg}, MainResponses)

Next ==
  \/ \E k \in KeyInputs : PageVisible(k)
  \/ PageHidden
  \/ \E m \in Modes, k \in KeyInputs : ClickStart(m, k)
  \/ ClickStop
  \/ \E m \in Modes, k \in KeyInputs : ModeChange(m, k)
  \/ ClickToggle
  \/ ToggleCameraStop
  \/ \E ok \in BOOLEAN, k \in KeyInputs : ToggleDone(ok, k)
  \/ \E k \in KeyInputs : IntervalTick(k)
  \/ \E i \in TaskIds, r \in server : TaskRespond(i, r)
  \/ \E i \in TaskIds : TaskBackoffDone(i)
  \/ \E l \in LoopIds, k \in KeyInputs : LoopWake(l, k)
  \/ \E l \in LoopIds, k \in KeyInputs : LoopGateWake(l, k)
  \/ \E l \in LoopIds, r \in server : LoopRespond(l, r)
  \/ \E l \in LoopIds : LoopBackoffDone(l)
  \/ \E d \in ClockSteps : Advance(d)

Spec ==
  Init /\ [][Next]_vars

\* OCRService.request under every retry policy and every response, driven
\* by the continuous loop with a stored API key
InitReq ==
  InitWith(1, 1, {TRUE}, CfgSpace, Responses)

NextReq ==
  \/ ClickStart("async", FALSE)
  \/ \E l \in LoopIds : LoopWake(l, FALSE)
  \/ \E l \in LoopIds, r \in server : LoopRespond(l, r)
  \/ \E l \in LoopIds : LoopBackoffDone(l)
  \/ \E d \in ClockSteps : Advance(d)

SpecReq ==
  InitReq /\ [][NextReq]_vars

\* stop() directly followed by start() in continuous mode, the server
\* always answering with a text
InitRestart ==
  InitWith(RestartLoops, 1, {TRUE}, {ProgramCfg},
           {[status |-> 200, msg |-> << >>, txt |-> << >>, text |-> TxtHello]})

NextRestart ==
  \/ ClickStart("async", FALSE)
  \/ PageHidden
  \/ PageVisible(FALSE)
  \/ \E l \in LoopIds : LoopWake(l, FALSE)
  \/ \E l \in LoopIds, r \in server : LoopRespond(l, r)
  \/ \E d \in ClockSteps : Advance(d)

SpecRestart ==
  InitRestart /\ [][NextRestart]_vars

\* cycles that fail: the API key or the whole configuration may be missing,
\* the key prompt is dismissed, and nothing stops the scheduler; timers and
\* ready continuations do run
InitFail ==
  InitWith(1, 1, BOOLEAN, {ProgramCfg, MissingCfg}, Responses)

NextFail ==
  \/ \E m \in Modes : ClickStart(m, FALSE)
  \/ IntervalTick(FALSE)
  \/ \E i \in TaskIds, r \in server : TaskRespond(i, r)
  \/ \E i \in TaskIds : TaskBackoffDone(i)
  \/ \E l \in LoopIds : LoopWake(l, FALSE)
  \/ \E l \in LoopIds, r \in server : LoopRespond(l, r)
  \/ \E l \in LoopIds : LoopBackoffDone(l)
  \/ \E d \in ClockSteps : Advance(d)

SpecFail ==
  /\ InitFail /\ [][NextFail]_vars
  /\ WF_vars(\E d \in ClockSteps : Advance(d))
  /\ WF_vars(\E l \in LoopIds : LoopWake(l, FALSE))

\* recognitions over the recognized texts, in both modes, with and without a key
InitText ==
  InitWith(1, 1, BOOLEAN, {ProgramCfg}, TextResponses)

NextText ==
  \/ \E m \in Modes : ClickStart(m, FALSE)
  \/ IntervalTick(FALSE)
  \/ \E i \in TaskIds, r \in server : TaskRespond(i, r)
  \/ \E l \in LoopIds : LoopWake(l, FALSE)
  \/ \E l \in LoopIds, r \in server : LoopRespond(l, r)
  \/ \E d \in ClockSteps : Advance(d)

SpecText ==
  InitText /\ [][NextText]_vars

\* interval mode with slow responses: several timer callbacks in flight
InitOverlap ==
  InitWith(1, MaxOverlap, {TRUE}, {ProgramCfg, NoRetryCfg}, Responses)

NextOverlap ==
  \/ ClickStart("interval", FALSE)
  \/ IntervalTick(FALSE)
  \/ \E i \in TaskIds, r \in server : TaskRespond(i, r)
  \/ \E i \in TaskIds : TaskBackoffDone(i)
  \/ \E d \in ClockSteps : Advance(d)

SpecOverlap ==
  InitOverlap /\ [][NextOverlap]_vars

(* ---------------------- the delay between cycles ---------------------- *)
\* the clock is looked at every second here, so that the sleep between two
\* cycles can end while the gate is still shut
DelaySteps ==
  { 1000, 5000 }
\* time passes, up to the longer horizon
AdvanceLong(d) ==
  /\ now + d <= DelayHorizon
  /\ now' = now + d
  /\ ev' = EvPlain("advance", NoStatus)
  /\ UNCHANGED << camActive, storedKey, cfg, server, results, mode, intervalId, timers,
                  asyncRunning, throttleUntil, lastCaptureTime, consecutiveErrors,
                  loops, ltask, tasks, toggle >>

\* one continuous loop, retries off, with answers that take up to
\* DelayHorizon to come
InitDelay ==
  InitWith(1, 1, {TRUE}, {NoRetryCfg}, MainResponses)

NextDelay ==
  \/ ClickStart("async", FALSE)
  \/ \E l \in LoopIds : LoopWake(l, FALSE)
  \/ \E l \in LoopIds : LoopGateWake(l, FALSE)
  \/ \E l \in LoopIds, r \in server : LoopRespond(l, r)
  \/ \E d \in DelaySteps : AdvanceLong(d)

SpecDelay ==
  InitDelay /\ [][NextDelay]_vars

(* ------------------- start() whatever the camera does ---------------- *)
\* this.capture.start() reached with the camera in any state: the handler of
\* the start button calls it after await this.camera.start(), during which
\* the Escape key may already have stopped the camera again
CallStart(keyIn) ==
  /\ Start(keyIn, "callStart")
  /\ UNCHANGED << now, camActive, cfg, server, results, mode, tasks, toggle >>

NextStart ==
  \/ Next
  \/ \E k \in KeyInputs : CallStart(k)

SpecStart ==
  Init /\ [][NextStart]_vars

(* ------------------- many failed cycles in a row ---------------------- *)
\* one continuous loop with retries off, stopped and started again by the
\* page being hidden and shown, with or without an API key, up to the
\* longer horizon
InitErrors ==
  InitWith(1, 1, BOOLEAN, {NoRetryCfg}, MainResponses)

NextErrors ==
  \/ ClickStart("async", FALSE)
  \/ PageHidden
  \/ PageVisible(FALSE)
  \/ \E l \in LoopIds : LoopWake(l, FALSE)
  \/ \E l \in LoopIds : LoopGateWake(l, FALSE)
  \/ \E l \in LoopIds, r \in server : LoopRespond(l, r)
  \/ \E d \in DelaySteps : AdvanceLong(d)

SpecErrors ==
  InitErrors /\ [][NextErrors]_vars

(* ------------------------- the results list --------------------------- *)
\* the texts given to addResult: two recognized words, a blank text and the
\* empty text
ResultTexts ==
  { << "A" >>, << "B" >>, << " " >>, << >> }
\* this.ui.addResult(text, confidence); the step is observed with the text
\* as arg and the texts of the items the call removed as ret
CallAddResult(text) ==
  LET added == IF AddResult(text) = << >> THEN results ELSE << text >> \o results
  IN /\ results' = IF AddResult(text) = << >> THEN results ELSE InsertResult(results, text)
     /\ ev' = [EvPlain("addResult", NoStatus) EXCEPT
                !.arg = text, !.ret = SubSeq(added, Len(results') + 1, Len(added))]
  /\ UNCHANGED << now, camActive, storedKey, cfg, server, mode, intervalId, timers,
                  asyncRunning, throttleUntil, lastCaptureTime, consecutiveErrors,
                  loops, ltask, tasks, toggle >>
\* clear button: this.ui.clearResults()
ClickClear ==
  /\ results' = << >>
  /\ ev' = EvPlain("clearResults", St("Results cleared", "warning"))
  /\ UNCHANGED << now, camActive, storedKey, cfg, server, mode, intervalId, timers,
                  asyncRunning, throttleUntil, lastCaptureTime, consecutiveErrors,
                  loops, ltask, tasks, toggle >>

InitResults ==
  InitWith(1, 1, {TRUE}, {ProgramCfg}, {})

NextResults ==
  \/ \E text \in ResultTexts : CallAddResult(text)
  \/ ClickClear

SpecResults ==
  InitResults /\ [][NextResults]_vars

(* ------------------------- functions on their own --------------------- *)
\* the one call f(arg) on the argument drawn at the start: it returns ret and
\* touches nothing of the page
Call(op, arg, ret) ==
  /\ ev.op = "init"
  /\ ev' = [EvPlain(op, NoStatus) EXCEPT !.arg = arg, !.ret = ret]
  /\ UNCHANGED << now, camActive, storedKey, cfg, server, results, mode, intervalId, timers,
                  asyncRunning, throttleUntil, lastCaptureTime, consecutiveErrors,
                  loops, ltask, tasks, toggle >>
RECURSIVE Flatten(_)
\* the pieces one after the other
Flatten(ts) ==
  IF ts = << >> THEN << >> ELSE Head(ts) \o Flatten(Tail(ts))
\* the pieces of recognized text: words of the boilerplate patterns, whole
\* and in halves, an ad-slot counter, a plain word, a blank and a line break
CleanTokens ==
  { << "a", "d" >>, << "u", "l", "t" >>, << "A", "d", "u", "l", "t" >>,
    << "@", "E", "Z", "l", "i", "n", "k" >>, << "A", "D", ":", " ", "1", "2", "/", "3" >>, << "H", "i" >>,
    << " " >>, << "\n" >> }
\* the texts of at most n pieces
TokenTexts(n) ==
  { Flatten(ts) : ts \in UNION { [1..k -> CleanTokens] : k \in 0..n } }
CleanInputs ==
  TokenTexts(MaxTokens) \cup { TxtEzlink, TxtHello, TxtBlank, TxtAdSlot }
\* this.app.cleanOcrResult(text)
CallCleanOcrResult ==
  Call("cleanOcrResult", ev.arg, CleanOcrResult(ev.arg))

InitClean ==
  InitCall(CleanInputs)

NextClean ==
  CallCleanOcrResult

SpecClean ==
  InitClean /\ [][NextClean]_vars

(* ------------------------ U.confidenceHeuristic ----------------------- *)
\* confidences are counted in millionths until they are rounded, and in
\* thousandths after (the binary floating-point error of the sums, below
\* 1e-15, is far from the half thousandth that would change the rounding)
Milli ==
  1000
\* a test on the empty text only
IsBlank_EmptyOnly(text) ==
  text = << >>
\* !text || !text.trim()
IsBlank(text) ==
  text = << >> \/ Trim(text) = << >>
\* U.confidenceHeuristic(text, responseMeta), usage being the truth value of
\* responseMeta.usage; the result is in thousandths
ConfidenceHeuristic(text, usage) ==
  IF IsBlank(text) THEN 100
  ELSE LET c0 == 900 * Milli
           c1 == IF Len(text) > 100 THEN Min({c0 + 50 * Milli, 980 * Milli})
                 ELSE IF Len(text) < 10 THEN Max(c0 - 100 * Milli, 700 * Milli)
                 ELSE c0
           c2 == IF usage THEN Min({c1 + 20 * Milli, 990 * Milli}) ELSE c1
       IN RoundDiv(c2 * 1000, Milli * 1000)
\* the text of n times the character c
Repeat(c, n) ==
  [i \in 1..n |-> c]
\* texts of every length up to the longest, of letters and of blanks, and
\* some recognized texts
ConfidenceInputs ==
  { Repeat(c, n) : c \in { "x", " " }, n \in 0..MaxTextLen }
    \cup { TxtHello, TxtBlank, TxtEzlink, BlurPhrase }
CallConfidenceHeuristic ==
  Call("confidenceHeuristic", ev.arg, ConfidenceHeuristic(ev.arg.text, ev.arg.usage))

InitConfidence ==
  InitCall([text : ConfidenceInputs, usage : BOOLEAN])

NextConfidence ==
  CallConfidenceHeuristic

SpecConfidence ==
  InitConfidence /\ [][NextConfidence]_vars

(* ------------------- calls of OCRService.parseTextValue --------------- *)
\* the pieces the texts given to parseTextValue are put together from
JsonTokens ==
  { << "{", "\"", "t", "e", "x", "t", "\"", ":" >>, << "{", "\"", "a", "\"", ":" >>, << ",", "\"", "t", "e", "x", "t", "\"", ":" >>,
    << "\"", "H", "i", "\"" >>, << "5" >>, << "n", "u", "l", "l" >>,
    << "[" >>, << "]" >>, << "}" >>, << " " >> }
JsonWrapped ==
  << "{", "\"", "t", "e", "x", "t", "\"", ":", "\"", "H", "i", "\"", "}" >>
JsonEscaped ==
  << "{", " ", "\"", "n", "\"", ":", " ", "[", "1", ",", " ", "-", "2", ".", "5", "e", "3", ",", " ", "t", "r", "u", "e", "]", ",", " ", "\"", "t", "e", "x", "t", "\"", ":", " ", "\"", "a", "\\", "n", "b", " ", "\\", "\"", "c", "\\", "\"", "\"", " ", "}" >>
JsonTwoTexts ==
  << "{", "\"", "t", "e", "x", "t", "\"", ":", "5", ",", "\"", "t", "e", "x", "t", "\"", ":", "\"", "H", "i", "\"", "}" >>
JsonTexts(n) ==
  { Flatten(ts) : ts \in UNION { [1..k -> JsonTokens] : k \in 0..n } }
ParseInputs ==
  JsonTexts(MaxJsonTokens) \cup { JsonWrapped, JsonEscaped, JsonTwoTexts, TxtHello, TxtEzlink }
CallParseTextValue ==
  Call("parseTextValue", ev.arg, ParseTextValue(ev.arg))

InitParse ==
  InitCall(ParseInputs)

NextParse ==
  CallParseTextValue

SpecParse ==
  InitParse /\ [][NextParse]_vars

(* ------------------ OCRService.request: the success path -------------- *)
\* the body of a 2xx response as far as request() looks at it: valid, it
\* parses as JSON; part, what candidates[0].content.parts[0] is ("none" when
\* a link of that chain is missing, "string", or "object"); textKind, what
\* the text member of an object part is ("absent", "string" or "number");
\* text, the characters of the string part or of the string member; usage,
\* whether usageMetadata is there, and its counters (0 when absent);
\* metaUsage, whether the body has a member named usage
Bodies ==
  [valid : BOOLEAN, part : { "none", "string", "object" },
   textKind : { "absent", "string", "number" },
   text : { << >>, TxtHello, JsonWrapped },
   usage : BOOLEAN, promptTokenCount : { 0, 7 },
   candidatesTokenCount : { 0, 3 }, responseTokenCount : { 0, 4 },
   metaUsage : BOOLEAN]
\* a || b on numbers: 0 is falsy
OrElseNum(a, b) ==
  IF a # 0 THEN a ELSE b
\* a body's text taken wherever parts[0] is an object
CandidateText_AnyMember(body) ==
  IF body.part = "object" THEN [string |-> TRUE, chars |-> TxtHello]
  ELSE IF body.part = "string" THEN [string |-> TRUE, chars |-> body.text]
  ELSE [string |-> TRUE, chars |-> << >>]
\* const raw = ...parts?.[0]?.text || ''; const text = raw || (...); then
\* text || '': the value handed to parseTextValue, a string or not
CandidateText(body) ==
  IF body.part = "object" /\ body.textKind = "string"
       THEN [string |-> TRUE, chars |-> body.text]
  ELSE IF body.part = "object" /\ body.textKind = "number"
       THEN [string |-> FALSE, chars |-> << >>]
  ELSE IF body.part = "string" THEN [string |-> TRUE, chars |-> body.text]
  ELSE [string |-> TRUE, chars |-> << >>]
\* request() from await response.json() on: it throws the SyntaxError of
\* response.json() on a body that is not JSON, and returns text and
\* tokenUsage otherwise (parseTextValue gives '' for what is not a string)
ResponseResult(body) ==
  IF ~body.valid
  THEN [threw |-> TRUE, text |-> << >>, inputTokens |-> 0, outputTokens |-> 0]
  ELSE LET t == CandidateText(body)
           u == IF body.usage THEN body
                ELSE [promptTokenCount |-> 0, candidatesTokenCount |-> 0,
                      responseTokenCount |-> 0]
       IN [threw |-> FALSE,
           text |-> IF t.string THEN ParseTextValue(t.chars) ELSE << >>,
           inputTokens |-> OrElseNum(u.promptTokenCount, 0),
           outputTokens |-> OrElseNum(u.candidatesTokenCount,
                                      OrElseNum(u.responseTokenCount, 0))]
CallResponseResult ==
  Call("responseResult", ev.arg, ResponseResult(ev.arg))

\* no call of addResult
NotDisplayed ==
  [shown |-> FALSE, text |-> << >>, confidence |-> 0]
\* meta: json || {} handed to confidenceHeuristic, which reads its member
\* named usage
MetaUsage(body) ==
  body.metaUsage
\* captureOnce from the no-text test on, for the cleaned text of a body:
\* the text and the confidence (in thousandths) given to addResult
Displayed(body, cleanedText) ==
  IF IsNoText(ToLowerCase(Trim(cleanedText)), NoTextPatterns) THEN NotDisplayed
  ELSE [shown |-> TRUE, text |-> cleanedText,
        confidence |-> ConfidenceHeuristic(cleanedText, MetaUsage(body))]
\* what captureOnce gives to addResult for a 2xx response with this body
DisplayedResult(body) ==
  IF ~body.valid THEN NotDisplayed
  ELSE Displayed(body, CleanOcrResult(ResponseResult(body).text))
CallDisplayedResult ==
  Call("displayedResult", ev.arg, DisplayedResult(ev.arg))

InitResponse ==
  InitCall(Bodies)

NextResponse ==
  \/ CallResponseResult
  \/ CallDisplayedResult

SpecResponse ==
  InitResponse /\ [][NextResponse]_vars

(* ------------------------------ properties ---------------------------- *)
\* C1: at most one capture loop is live at any time: never two activations
\* of the continuous loop while its loop condition holds, and never the
\* running flag of the continuous loop together with an interval timer
C1_AtMostOneLoop ==
  /\ (asyncRunning /\ camActive) =>
       Cardinality({l \in LoopIds : loops[l].pc # "none"}) <= 1
  /\ ~(asyncRunning /\ intervalId # 0)

\* C2: while the controller is stopped (stop() has returned and start() is
\* not called), no capture cycle begins: no timer is left and no tick runs,
\* every captureOnce call that is idle stays idle, no loop activation
\* appears, and a loop that finishes its sleep leaves the loop
C2_NoCycleAfterStop ==
  [][ (~asyncRunning /\ intervalId = 0 /\ ~asyncRunning' /\ intervalId' = 0) =>
        /\ timers = {} /\ ev'.op # "tick"
        /\ \A i \in TaskIds : tasks[i].pc = "free" => tasks'[i].pc = "free"
        /\ \A l \in LoopIds :
             /\ ltask[l].pc = "free" => ltask'[l].pc = "free"
             /\ loops[l].pc = "none" => loops'[l].pc = "none"
             /\ (loops[l].pc = "sleep" /\ loops'[l] # loops[l]) => loops'[l].pc = "none"
    ]_vars
\* a loop left at its loop-condition check after stop(), the camera still on
C2_Witness ==
  camActive /\ ~asyncRunning /\ intervalId = 0 /\ ev.op = "loopExit"

\* C3: an interval tick that finds the gate blocked skips the tick: it
\* captures no frame and sends no recognition request
C3_BlockedTickSkips ==
  (ev.op = "tick" /\ ev.blocked) =>
    (ev.sent = 0 /\ ev.res \notin {"pending", "ok", "failed"})

\* C4: when request() decides to retry a response, the gate is tripped to
\* now + 5000 before the backoff wait begins
C4_TripBeforeBackoff ==
  (ev.op = "respond" /\ ev.http > 0 /\ ev.res = "pending") =>
    throttleUntil = now + ThrottleCooldown

\* C5: when request() fails on a non-success HTTP status, the gate is
\* tripped for the 5-second cooldown, whatever the status and the message
C5_TripOnEveryFailure ==
  (ev.op = "respond" /\ ev.http > 0 /\ ev.res = "failed") =>
    throttleUntil = now + ThrottleCooldown

\* C6 as stated: with attempts remaining, a non-2xx response is retried
\* exactly when its status is 429 or any 5xx
C6_Retries429Or5xx ==
  (ev.op = "respond" /\ ev.http >= 300 /\ ev.attempt < cfg.maxRetries) =>
    ((ev.res = "pending") <=> (ev.http = 429 \/ ev.http \in 500..599))
\* C6: a non-2xx response is retried exactly when its status is 429 or 500
\* and attempts remain; any other one ends the call in failure at that
\* attempt, after a single request and no wait when it is the first
C6_Retries429Or500 ==
  (ev.op = "respond" /\ ev.http >= 300) =>
    /\ (ev.res = "pending") <=>
         ((ev.http = 429 \/ ev.http = 500) /\ ev.attempt < cfg.maxRetries)
    /\ ev.res \in {"pending", "failed"}
    /\ (ev.res = "failed" /\ ev.attempt = 0) => (ev.sent = 1 /\ ev.waited = 0)
\* a 503 answer with attempts remaining ends the call at once
C6_Witness ==
  /\ ev.op = "respond" /\ ev.http = 503 /\ ev.attempt < cfg.maxRetries
  /\ ev.res = "failed" /\ ev.sent = 1 /\ ev.waited = 0

\* C7 as stated: k transient failures followed by success cost exactly the
\* sum of baseDelay * backoffMultiplier^i for i = 0..k-1 (both sides scaled
\* by multDen^(k-1))
C7_ExactSum ==
  (ev.op = "respond" /\ ev.res = "ok" /\ ev.attempt >= 1) =>
    LET k == ev.attempt
        Term[i \in 0..(k - 1)] ==
          cfg.retryDelay * (cfg.multNum ^ i) * (cfg.multDen ^ (k - 1 - i))
        Sum[i \in 0..k] == IF i = 0 THEN 0 ELSE Sum[i - 1] + Term[i - 1]
    IN ev.waited * (cfg.multDen ^ (k - 1)) = Sum[k]
\* C7: k failures with status 429 or 500 followed by success cost the sum
\* of the delays rounded to whole milliseconds, and k + 1 requests
C7_RoundedSum ==
  (ev.op = "respond" /\ ev.res = "ok") =>
    LET k == ev.attempt
        Delay[i \in 0..k] ==
          (2 * cfg.retryDelay * (cfg.multNum ^ i) + (cfg.multDen ^ i))
            \div (2 * (cfg.multDen ^ i))
        Sum[i \in 0..k] == IF i = 0 THEN 0 ELSE Sum[i - 1] + Delay[i - 1]
    IN ev.waited = Sum[k] /\ ev.sent = k + 1
\* two transient answers, then success, under a retry ceiling of 2 and a
\* second delay of 7.5 ms
C7_Witness ==
  /\ ev.op = "respond" /\ ev.res = "ok" /\ ev.attempt = 2
  /\ cfg.maxRetries = 2 /\ cfg.retryDelay = 5 /\ cfg.multNum = 3 /\ cfg.multDen = 2

\* C8: a request() call never counts more attempts than maxRetries nor
\* sends more than maxRetries + 1 requests, and the response to attempt
\* number maxRetries ends the call
C8_BoundedRetries ==
  /\ \A l \in LoopIds :
       ltask[l].attempt <= cfg.maxRetries /\ ltask[l].sent <= cfg.maxRetries + 1
  /\ \A i \in TaskIds :
       tasks[i].attempt <= cfg.maxRetries /\ tasks[i].sent <= cfg.maxRetries + 1
  /\ ev.attempt <= cfg.maxRetries /\ ev.sent <= cfg.maxRetries + 1
  /\ (ev.op = "respond" /\ ev.attempt = cfg.maxRetries) => ev.res \in {"ok", "failed"}
\* the last allowed attempt of a call with ceiling 2 is answered with 429
C8_Witness ==
  /\ ev.op = "respond" /\ ev.http = 429 /\ cfg.maxRetries = 2
  /\ ev.attempt = 2 /\ ev.sent = 3 /\ ev.res = "failed"

\* C9: a continuous loop whose last three cycles failed pauses for 5 seconds
\* before the next cycle, the consecutive-error counter being 0
C9_PauseAfterThreeFailures ==
  \A l \in LoopIds :
    (loops[l].pc = "sleep" /\ loops[l].fails = MaxConsecutiveErrors) =>
      (loops[l].delay = ErrorPause /\ consecutiveErrors = 0)

\* C10: a rejected fetch, on any attempt, ends the call at once in a
\* "Network error: ..." failure: the call is over, it waits for nothing and
\* has sent no request beyond the rejected one
C10_NetworkFailsAtOnce ==
  (ev.op = "respond" /\ ev.http = 0) =>
    /\ ev.res = "failed"
    /\ StartsWith(ev.err, PfxNetwork)
    /\ ev.st = St("Network connection error", "error")
    /\ ev.sent = ev.attempt + 1
    /\ (ev.kind = "loop" => ltask[ev.id].pc = "free")
    /\ (ev.kind = "task" => tasks[ev.id].pc = "free")
\* the fetch of a retry attempt is rejected, attempts still remaining
C10_Witness ==
  /\ ev.op = "respond" /\ ev.http = 0 /\ ev.res = "failed"
  /\ ev.attempt >= 1 /\ ev.attempt < cfg.maxRetries

\* C11: without an API key, or without a model configuration, a call of
\* request() ends in failure before any fetch: it has sent nothing, and no
\* call is waiting for a response or for a retry
C11_NoFetchWithoutKeyOrModel ==
  (~storedKey \/ ~cfg.loaded) =>
    /\ \A l \in LoopIds : ltask[l].sent = 0 /\ ltask[l].pc \notin {"fetch", "backoff"}
    /\ \A i \in TaskIds : tasks[i].sent = 0 /\ tasks[i].pc \notin {"fetch", "backoff"}
    /\ (ev.kind # "none" /\ ev.res # "aborted") =>
         /\ ev.res = "failed" /\ ev.sent = 0 /\ ev.http = -1
         /\ ev.err = (IF ~storedKey THEN MsgNoApiKey ELSE MsgNoModel)
\* a cycle has failed for want of a model configuration, the key being there
C11_Witness ==
  storedKey /\ ~cfg.loaded /\ ev.res = "failed" /\ ev.err = MsgNoModel /\ ev.sent = 0

\* C12: every error of request() is caught inside the capture cycle and
\* reported with error severity; the cycle returns normally, so the loop
\* goes on to its wait between cycles and the interval timer stays installed
C12_ErrorsCaughtInCycle ==
  (ev.err # << >>) =>
    /\ ev.res = "failed" /\ ev.st.type = "error" /\ ev.st.text # ""
    /\ (ev.kind = "loop" =>
          /\ ltask[ev.id].pc = "free"
          /\ loops[ev.id].pc = "sleep" /\ loops[ev.id].wake >= now + MinDelay)
    /\ (ev.kind = "task" =>
          /\ tasks[ev.id].pc = "free"
          /\ (intervalId # 0 => \E tm \in timers : tm.id = intervalId))
\* a retried request of a timer callback has failed for good on a 429
C12_Witness ==
  /\ ev.kind = "task" /\ ev.op = "respond" /\ ev.http = 429 /\ ev.attempt = 1
  /\ ev.res = "failed" /\ intervalId # 0

\* C13: a capture cycle finds the gate blocked exactly from the instant of
\* the last trip until 5000 ms later: blocked at every t with
\* trip <= t < trip + 5000 and open at every t >= trip + 5000; and a trip
\* at time now leaves throttleUntil = now + 5000
C13_BlockedDuringCooldown ==
  /\ (ev.op \in {"start", "tick", "loopWake"} /\ ev.kind # "none") =>
       (ev.blocked <=>
          (throttleUntil # 0 /\ throttleUntil - ThrottleCooldown <= now
                             /\ now < throttleUntil))
  /\ (ev.res = "failed" /\ (Includes(ev.err, Str429) \/ Includes(ev.err, Str500))) =>
       throttleUntil = now + ThrottleCooldown
  /\ throttleUntil # 0 => throttleUntil - ThrottleCooldown \in 0..now
\* a cycle starts at the very instant the cooldown ends and finds the gate open
C13_Witness ==
  /\ ev.op \in {"tick", "loopWake"} /\ ev.kind # "none"
  /\ throttleUntil > 0 /\ now = throttleUntil /\ ~ev.blocked
\* C14: throttleUntil is 0 when the controller is constructed and never
\* decreases afterwards, whatever cycles, start() and stop() interleave
C14_GateNeverGoesBack ==
  throttleUntil = 0 /\ [][throttleUntil' >= throttleUntil]_vars
\* the gate has been tripped at a time later than the first cooldown
C14_Witness ==
  /\ ev.res = "failed" /\ throttleUntil = now + ThrottleCooldown
  /\ throttleUntil > ThrottleCooldown + ThrottleCooldown

\* C15: a continuous cycle that finds the gate blocked sleeps until the
\* throttleUntil it has read, having sent nothing, and sends its request
\* only out of that sleep, at a time not before that throttleUntil
C15_LoopWaitsForGate ==
  /\ [](\A l \in LoopIds :
          ltask[l].pc = "gateSleep" => (ltask[l].blocked /\ ltask[l].sent = 0))
  /\ [][\A l \in LoopIds :
          /\ (ltask[l].pc # "gateSleep" /\ ltask'[l].pc = "gateSleep") =>
               (throttleUntil > now /\ ltask'[l].wake = throttleUntil)
          /\ (ltask'[l].blocked /\ ltask[l].sent = 0 /\ ltask'[l].sent = 1) =>
               (ltask[l].pc = "gateSleep" /\ now' >= ltask[l].wake)
      ]_vars
\* a cycle has slept on the gate and then sent its request
C15_Witness ==
  ev.op = "gateWake" /\ ev.blocked /\ ev.res = "pending" /\ ev.sent = 1

\* C16: one activation of the continuous loop never has two cycles in
\* flight: while it waits between cycles no captureOnce call of it is
\* pending, a cycle ends before the wait begins, the wait lasts at least
\* MinDelay, and the next cycle begins only when the wait is over
C16_LoopCyclesDoNotOverlap ==
  /\ [](\A l \in LoopIds :
          /\ loops[l].pc \in {"sleep", "none"} => ltask[l].pc = "free"
          /\ loops[l].pc = "cycle" => ltask[l].pc # "free")
  /\ [][\A l \in LoopIds :
          /\ (loops[l].pc = "cycle" /\ loops'[l] # loops[l]) =>
               /\ loops'[l].pc = "sleep" /\ ltask'[l].pc = "free"
               /\ loops'[l].wake >= now + MinDelay
          /\ (loops[l].pc = "sleep" /\ loops'[l] # loops[l]) =>
               (now >= loops[l].wake /\ ltask[l].pc = "free")
      ]_vars
\* the loop has begun a further cycle after its wait and is awaiting the fetch
C16_Witness ==
  ev.op = "loopWake" /\ ev.kind = "loop" /\ ev.res = "pending" /\ ev.sent = 1

\* C17: in interval mode a due timer callback runs whether or not earlier
\* cycles are in flight, starts a call of its own and leaves the calls in
\* flight as they are
C17_TicksOverlap ==
  /\ []((intervalId # 0 /\ FreeTasks # {} /\ \E tm \in timers : now >= tm.due) =>
          ENABLED IntervalTick(FALSE))
  /\ [][ev'.op = "tick" =>
          /\ \A i \in TaskIds : tasks[i].pc # "free" => tasks'[i] = tasks[i]
          /\ \E i \in TaskIds : tasks[i].pc = "free" /\ ev'.id = i
                                  /\ tasks'[i].pc = "fetch" /\ tasks'[i].sent = 1
      ]_vars
\* two recognition requests of two timer callbacks are in flight at once
C17_Witness ==
  /\ ev.op = "tick"
  /\ Cardinality({i \in TaskIds : tasks[i].pc = "fetch"}) >= 2

\* C18: in continuous mode, with the camera active and the API key or the
\* model configuration missing, a failed cycle is followed by another cycle
\* that ends in an error status, as long as the clock has room to advance
C18_LoopKeepsRetrying ==
  \A d \in ClockSteps : \A n \in 0..(MaxTime \div d) :
    (/\ ev.kind = "loop" /\ ev.res = "failed"
     /\ (~storedKey \/ ~cfg.loaded)
     /\ asyncRunning /\ camActive
     /\ now = n * d /\ now + d <= MaxTime)
    ~> (/\ ev.kind = "loop" /\ ev.op = "loopWake" /\ ev.res = "failed"
        /\ ev.st.type = "error" /\ now > n * d)
\* a second cycle in a row has failed for want of an API key
C18_Witness ==
  /\ ~storedKey /\ ev.kind = "loop" /\ ev.op = "loopWake" /\ ev.res = "failed"
  /\ ev.err = MsgNoApiKey /\ \E l \in LoopIds : loops[l].fails >= 2

\* C19: a recognized text is added to the results list only if its cleaned
\* form is not empty and includes, letter case aside, none of the configured
\* no-text patterns; otherwise the cycle sets the no-text or the blur status
\* and adds nothing; a cycle that did not succeed adds nothing either
C19_OnlyTextIsShown ==
  LET cleaned == CleanOcrResult(ev.text)
      hasPattern == \E p \in ConfigNoTextPatterns :
                      Includes(ToLowerCase(cleaned), ToLowerCase(p))
  IN /\ ev.res # "ok" => ev.shown = << >>
     /\ ev.res = "ok" /\ (cleaned = << >> \/ hasPattern) =>
          /\ ev.shown = << >>
          /\ ev.st \in { St("No text detected", "warning"), St("Image blur", "warning") }
     /\ ev.res = "ok" /\ cleaned # << >> /\ ~hasPattern =>
          /\ ev.shown = cleaned
          /\ ev.st = St("OCR completed", "success")
\* a no-text answer in capitals came back and nothing was added to the list
C19_Witness ==
  /\ ev.res = "ok" /\ ev.text = TxtNoTextFound
  /\ ev.shown = << >> /\ ev.st = St("No text detected", "warning")

\* C20: stop() is idempotent: once stop() has run, running it again leaves
\* intervalId, the timers, asyncRunning, consecutiveErrors, throttleUntil and
\* mode as they are, and so does stop() on an idle scheduler
C20_StopIsIdempotent ==
  (ev.op = "stop" \/ (intervalId = 0 /\ ~asyncRunning /\ consecutiveErrors = 0)) =>
    ENABLED (/\ DoStop(StopStatus(camActive), "stop")
             /\ intervalId' = intervalId
             /\ timers' = timers
             /\ asyncRunning' = asyncRunning
             /\ consecutiveErrors' = consecutiveErrors
             /\ throttleUntil' = throttleUntil
             /\ mode' = mode
             /\ UNCHANGED << now, camActive, cfg, server, results, tasks, toggle >>)
\* stop() has run while a continuous loop was live and the gate was set
C20_Witness ==
  /\ ev.op = "stop"
  /\ throttleUntil > 0
  /\ \E l \in LoopIds : loops[l].pc # "none"

\* C21: cleanOcrResult is idempotent: cleaning a cleaned text gives the
\* cleaned text again
C21_CleanIsIdempotent ==
  ev.op = "cleanOcrResult" => CleanOcrResult(ev.ret) = ev.ret

\* C22: cleanOcrResult removes boilerplate and normalises lines: the text
\* '  @ezlink card balance', line break, 'HELLO WORLD', line break, becomes
\* 'HELLO WORLD'; the output has no match of a boilerplate pattern, and each
\* of its lines is trimmed and not empty
C22_CleanRemovesBoilerplate ==
  ev.op = "cleanOcrResult" =>
    /\ ev.arg = TxtEzlink => ev.ret = TxtHello
    /\ \A i \in 1..Len(ev.ret) :
         /\ \A k \in 1..Len(LiteralPatterns) : ~LiteralAt(ev.ret, i, LiteralPatterns[k])
         /\ AdMatchLen(ev.ret, i) = 0
    /\ ev.ret # << >> =>
         \A n \in 1..Len(Split(ev.ret)) :
           Split(ev.ret)[n] # << >> /\ Trim(Split(ev.ret)[n]) = Split(ev.ret)[n]

\* C23: confidenceHeuristic, in thousandths, is 100 for an empty or blank
\* text; otherwise 900, or 950 for a text of more than 100 characters, or 800
\* for one of fewer than 10, plus 20 up to 990 when usage metadata is present;
\* every result is within 0..1000 and a text of 150 characters gets more than
\* 900 and at most 990
C23_ConfidenceValues ==
  ev.op = "confidenceHeuristic" =>
    LET text == ev.arg.text
        base == IF Len(text) > 100 THEN 950 ELSE IF Len(text) < 10 THEN 800 ELSE 900
    IN /\ (text = << >> \/ \A i \in 1..Len(text) : text[i] \in WhiteSpace) => ev.ret = 100
       /\ (\E i \in 1..Len(text) : text[i] \notin WhiteSpace) =>
            ev.ret = IF ev.arg.usage THEN Min({base + 20, 990}) ELSE base
       /\ ev.ret \in 0..1000
       /\ (Len(text) = 150 /\ \E i \in 1..Len(text) : text[i] \notin WhiteSpace) =>
            ev.ret > 900 /\ ev.ret <= 990
\* a text of 150 letters with usage metadata got 0.97, and so did not stay
\* at the 0.9 it started from
C23_Witness ==
  /\ ev.op = "confidenceHeuristic" /\ Len(ev.arg.text) = 150 /\ ev.arg.usage
  /\ ev.ret = 970

\* C24: parseTextValue returns the text member when its argument parses as
\* JSON to an object whose text member is a string, and its argument
\* unchanged in every other case: not JSON, null, a number, an array, an
\* object with no text member or with one that is not a string
C24_ParseTextValueUnwraps ==
  ev.op = "parseTextValue" =>
    LET parsed == JsonParse(ev.arg)
        Hi == << "H", "i" >>
    IN /\ (parsed.ok /\ parsed.v.t = "object" /\ parsed.v.hasText /\ parsed.v.textIsString)
            => ev.ret = parsed.v.text
       /\ (~parsed.ok \/ parsed.v.t # "object" \/ ~parsed.v.hasText \/ ~parsed.v.textIsString)
            => ev.ret = ev.arg
       /\ ev.arg \in { JsonWrapped, JsonTwoTexts } => ev.ret = Hi
       /\ ev.arg \in { TxtHello, << "n", "u", "l", "l" >>, << "5" >>, << "[", "5", "]" >>,
                       << "{", "\"", "a", "\"", ":", "5", "}" >>, << "{", "\"", "t", "e", "x", "t", "\"", ":", "5", "}" >>, << "{", "\"", "t", "e", "x", "t", "\"", ":", "n", "u", "l", "l", "}" >>,
                       << "\"", "H", "i", "\"" >>, << "{", "\"", "t", "e", "x", "t", "\"", ":", "\"", "H", "i", "\"" >> } => ev.ret = ev.arg
\* the text {"text":"Hi"} came in and Hi came out
C24_Witness ==
  ev.op = "parseTextValue" /\ ev.arg = JsonWrapped /\ ev.ret = << "H", "i" >>

\* C25: a success response with a JSON body that carries no candidate text
\* makes request() return normally with the empty text (it throws only on a
\* body that is not JSON), and without usage metadata both token counts it
\* returns are 0
C25_NoTextIsNoError ==
  ev.op = "responseResult" =>
    LET body == ev.arg
        noText == \/ body.part = "none"
                  \/ body.part = "object" /\ body.textKind # "string"
                  \/ body.text = << >>
    IN /\ ev.ret.threw <=> ~body.valid
       /\ (body.valid /\ noText) => ev.ret.text = << >>
       /\ (body.valid /\ ~body.usage) =>
            ev.ret.inputTokens = 0 /\ ev.ret.outputTokens = 0
\* a body with no candidates and no usage metadata, though with counters
\* elsewhere, gave the empty text and no tokens
C25_Witness ==
  /\ ev.op = "responseResult" /\ ev.arg.valid /\ ev.arg.part = "none"
  /\ ~ev.arg.usage /\ ev.arg.promptTokenCount = 7
  /\ ~ev.ret.threw /\ ev.ret.text = << >>
  /\ ev.ret.inputTokens = 0 /\ ev.ret.outputTokens = 0

\* C26: after any addResult and clearResults calls the results list holds at
\* most 15 items; an addResult call that adds an item puts it first and keeps
\* the items before it in their order, the oldest one leaving when the list
\* already held 15
C26_ResultsBounded ==
  /\ [](Len(results) <= 15)
  /\ [][ev'.op = "addResult" =>
          IF \E i \in 1..Len(ev'.arg) : ev'.arg[i] \notin WhiteSpace
          THEN /\ results'[1] = ev'.arg
               /\ Len(results') = IF Len(results) < 15 THEN Len(results) + 1 ELSE 15
               /\ \A i \in 2..Len(results') : results'[i] = results[i - 1]
               /\ ev'.ret = IF Len(results) < 15 THEN << >> ELSE << results[15] >>
          ELSE results' = results /\ ev'.ret = << >>
     ]_vars
\* a 16th item was added to a list of 15: the oldest item has left and the
\* one that was second oldest is now the last
C26_Witness ==
  /\ ev.op = "addResult" /\ Len(results) = 15 /\ ev.ret = << << "A" >> >>
  /\ results[1] = << "B" >> /\ results[15] = << "B" >>

\* C27: every cycle of the continuous loop whose request() call fails adds
\* one to consecutiveErrors, and every cycle whose call succeeds sets it to 0
C27_CounterCountsFailures ==
  [][/\ (ev'.kind = "loop" /\ ev'.res = "failed") =>
          consecutiveErrors' = consecutiveErrors + 1
     /\ (ev'.kind = "loop" /\ ev'.res = "ok") => consecutiveErrors' = 0
    ]_vars

\* C28: a continuous loop whose last n cycles failed, n below 3, waits
\* 1000 * n ms before its next cycle
C28_LinearBackoff ==
  \A l \in LoopIds :
    (loops[l].pc = "sleep" /\ loops[l].fails \in 1..(MaxConsecutiveErrors - 1)) =>
      loops[l].delay = 1000 * loops[l].fails

\* C29: lastCaptureTime is the start of the loop's current cycle; after a
\* successful cycle the loop sleeps max(1000, a tenth of the time since that
\* start) ms, and its next cycle starts no sooner than that, so no less than
\* 1000 ms after the cycle ended
C29_DelayAfterSuccess ==
  /\ []((ev.kind = "loop" /\ ev.res = "ok") =>
          /\ loops[ev.id].pc = "sleep"
          /\ loops[ev.id].delay = IF (now - lastCaptureTime) \div 10 > 1000
                                  THEN (now - lastCaptureTime) \div 10 ELSE 1000
          /\ loops[ev.id].wake = now + loops[ev.id].delay)
  /\ [][IF ev'.kind = "loop" /\ ev'.op \in { "start", "loopWake" }
        THEN lastCaptureTime' = now'
        ELSE lastCaptureTime' = lastCaptureTime]_vars
  /\ [][(ev'.kind = "loop" /\ ev'.op = "loopWake") =>
          /\ now' >= loops[ev'.id].wake
          /\ loops[ev'.id].delay >= 1000]_vars
\* an answer that took 15 seconds: the loop sleeps 1500 ms
C29_Witness ==
  /\ ev.kind = "loop" /\ ev.res = "ok" /\ now - lastCaptureTime = 15000
  /\ loops[ev.id].delay = 1500

\* C30: a failed cycle reports the status of its error kind: a missing API
\* key (or one the provider rejects) as 'API key required', a rejected fetch
\* as 'Network connection error', a 429 or 5xx answer as 'Service
\* temporarily unavailable', and anything else as 'OCR processing failed'
C30_StatusPerErrorKind ==
  ev.res = "failed" =>
    ev.st = IF ev.err = MsgNoApiKey \/ ev.err = PfxApi \o MsgBadKey
              THEN St("API key required - please set GEMINI_API_KEY", "error")
            ELSE IF ev.http = 0 THEN St("Network connection error", "error")
            ELSE IF ev.http = 429 \/ ev.http \in 500..599
              THEN St("Service temporarily unavailable", "error")
            ELSE St("OCR processing failed", "error")

\* C31: a continuous cycle that was sleeping on the gate when stop() was
\* called (the running flag is down when the sleep ends) sends no recognition
\* request after it wakes
C31_NoRequestAfterStopInGateSleep ==
  [][(ev'.kind = "loop" /\ ev'.op = "gateWake" /\ ~asyncRunning) => ev'.sent = 0]_vars

\* C32: a capture cycle that reaches captureJpeg (a timer callback, or a loop
\* cycle whose sleep on the gate is over) while the camera is inactive aborts:
\* it sends no request, raises no error, reports no error status and leaves
\* throttleUntil and consecutiveErrors as they were
C32_InactiveCameraAborts ==
  [][(ev'.op \in { "tick", "gateWake" } /\ ~camActive) =>
        /\ ev'.res = "aborted"
        /\ ev'.sent = 0
        /\ ev'.err = << >>
        /\ ev'.st.type # "error"
        /\ throttleUntil' = throttleUntil
        /\ consecutiveErrors' = consecutiveErrors]_vars
\* a timer callback has run with the camera switched off
C32_Witness ==
  ev.op = "tick" /\ ev.kind = "task" /\ ~camActive /\ ev.res = "aborted"

\* C33: a displayed result whose response carries usage metadata
\* (usageMetadata with promptTokenCount / candidatesTokenCount) is reported
\* with the confidence that includes the usage bonus of 0.02
C33_UsageBonusGiven ==
  (ev.op = "displayedResult" /\ ev.ret.shown /\ ev.arg.usage) =>
    ev.ret.confidence = ConfidenceHeuristic(ev.ret.text, TRUE)

\* C34: a step of a timer-callback cycle, whatever other cycles are in
\* flight, leaves mode, intervalId, asyncRunning, consecutiveErrors and
\* lastCaptureTime as they were; it writes throttleUntil only when it fails
\* with a message that trips the gate, and then to now + 5000 whatever the
\* value was
C34_CyclesWriteOnlyTheGate ==
  [][ev'.kind = "task" =>
        /\ mode' = mode
        /\ intervalId' = intervalId
        /\ asyncRunning' = asyncRunning
        /\ consecutiveErrors' = consecutiveErrors
        /\ lastCaptureTime' = lastCaptureTime
        /\ throttleUntil' = IF ev'.res = "failed" /\ TripsGate(ev'.err)
                             THEN now' + ThrottleCooldown ELSE throttleUntil]_vars
\* one of two cycles in flight has failed and shut the gate while the other
\* still waits for its answer
C34_Witness ==
  /\ ev.kind = "task" /\ ev.op = "respond" /\ ev.res = "failed"
  /\ throttleUntil = now + ThrottleCooldown
  /\ \E i \in TaskIds : i # ev.id /\ tasks[i].pc = "fetch"

\* C35: whatever start(), stop() and setMode() calls have run, at most one
\* interval timer is live, and intervalId is set exactly when one is, to the
\* id of that timer
C35_OneIntervalTimer ==
  /\ Cardinality(timers) <= 1
  /\ intervalId # 0 <=> timers # {}
  /\ \A tm \in timers : tm.id = intervalId
\* start() has installed a timer while the cycle of an earlier timer
\* callback is still in flight
C35_Witness ==
  /\ ev.op = "start" /\ mode = "interval" /\ intervalId # 0
  /\ Cardinality(timers) = 1
  /\ \E i \in TaskIds : tasks[i].pc = "fetch"

\* C36: whenever asyncRunning is true an activation of runAsyncLoop is live
C36_RunningFlagHasLoop ==
  asyncRunning => \E l \in LoopIds : loops[l].pc # "none"

\* C37: a stop() call writes intervalId, asyncRunning and consecutiveErrors
\* and nothing else of the scheduler: throttleUntil, lastCaptureTime and the
\* cycles in flight stay as they were; and a start() (which begins with
\* stop()) during a cooldown leaves the gate shut, so that the first cycle of
\* the loop it starts finds it shut and sleeps on it without a request
C37_StopKeepsGate ==
  /\ [][ev'.op = "stop" =>
           /\ throttleUntil' = throttleUntil
           /\ lastCaptureTime' = lastCaptureTime
           /\ loops' = loops /\ ltask' = ltask /\ tasks' = tasks
           /\ intervalId' = 0 /\ ~asyncRunning' /\ consecutiveErrors' = 0]_vars
  /\ [][(ev'.op = "start" /\ throttleUntil > now) =>
           /\ throttleUntil' = throttleUntil
           /\ ev'.kind = "loop" =>
                 ev'.blocked /\ ev'.res = "pending" /\ ev'.sent = 0]_vars
\* a loop started during a cooldown sleeps on the gate
C37_Witness ==
  /\ ev.op = "start" /\ ev.kind = "loop" /\ ev.blocked
  /\ throttleUntil > now /\ ltask[ev.id].pc = "gateSleep"

\* C38: a start() call that finds the camera inactive changes nothing: no
\* timer, no loop, no status, and intervalId, asyncRunning, consecutiveErrors,
\* throttleUntil and the cycles in flight exactly as they were
C38_StartWithoutCameraIsNoOp ==
  [][(ev'.op = "callStart" /\ ~camActive) =>
        /\ UNCHANGED << intervalId, timers, asyncRunning, consecutiveErrors,
                        throttleUntil, lastCaptureTime, loops, ltask, tasks >>
        /\ ev'.kind = "none" /\ ev'.st = NoStatus]_vars
\* start() has returned with the camera off while the running flag is up and
\* the loop is still asleep
C38_Witness ==
  /\ ev.op = "callStart" /\ ~camActive /\ asyncRunning
  /\ \E l \in LoopIds : loops[l].pc = "sleep"

====
